---- MODULE Spec2Model ----
(***************************************************************************)
(* Verification model of the CKB prediction-market validators:             *)
(*   contracts/market/src/main.rs        (Market type script)              *)
(*   contracts/market-token/src/main.rs  (Market Token type script)        *)
(*                                                                         *)
(* Representation.                                                         *)
(*  - An unsigned integer (u64, u128) is its little-endian byte sequence   *)
(*    without trailing zero bytes (<<>> is 0).  u128 overflow is a result  *)
(*    longer than 16 bytes, u64 overflow one longer than 8 bytes, so every *)
(*    width of the source is kept exactly.                                 *)
(*  - A byte string (script args, cell data) is a sequence of atoms.  An   *)
(*    atom of length 1, <<b>>, is the byte b.  A longer atom is a 32-byte  *)
(*    block: the zero block, a code hash, or a blake2b digest, which is    *)
(*    modelled as a tagged injective serialisation of its preimage         *)
(*    (collision resistance).                                              *)
(*  - Option<T> is a sequence of length 0 or 1.                            *)
(*  - Result<T, Error> is a record [ok, val, err].                         *)
(***************************************************************************)
EXTENDS Integers, Sequences, FiniteSets, TLC

VARIABLES
    tx,        \* the transaction last handed to the validators: [inputs, outputs]
    checked,   \* TRUE once the script groups of tx have run
    verdict,   \* the return code of every type script group of tx, once checked
    live,      \* the ledger: the set of live cells, each with its out_point
    ntx,       \* the number of transactions committed to the ledger
    origin,    \* for every market script created so far, the cell that created it
    runs,      \* how many times the script groups of tx have been run
    pool,      \* the transaction sent to the node and not yet committed, or NoTx
    draft      \* the transaction the client has built from the cells it read and
               \* not yet sent, or NoTx

vars == <<tx, checked, verdict, live, ntx, origin, runs, pool, draft>>

(***************************************************************************)
(* Unsigned integers of arbitrary size, base 256, little-endian.           *)
(***************************************************************************)
RECURSIVE Norm(_)
Norm(s) == IF s = <<>> THEN <<>>
           ELSE IF s[Len(s)] = 0 THEN Norm(SubSeq(s, 1, Len(s) - 1))
           ELSE s

RECURSIVE N(_)
N(n) == IF n = 0 THEN <<>> ELSE <<n % 256>> \o N(n \div 256)

Limb(s) == IF s = <<>> THEN 0 ELSE Head(s)
Rest(s) == IF s = <<>> THEN <<>> ELSE Tail(s)

RECURSIVE AddRec(_, _, _)
AddRec(a, b, c) ==
    IF a = <<>> /\ b = <<>> THEN (IF c = 0 THEN <<>> ELSE <<c>>)
    ELSE LET x == Limb(a) + Limb(b) + c
         IN  <<x % 256>> \o AddRec(Rest(a), Rest(b), x \div 256)

BigAdd(a, b) == AddRec(a, b, 0)

RECURSIVE BigLessFrom(_, _, _)
BigLessFrom(a, b, i) ==
    IF i = 0 THEN FALSE
    ELSE IF a[i] # b[i] THEN a[i] < b[i]
    ELSE BigLessFrom(a, b, i - 1)

\* a < b on normalised numbers
BigLess(a, b) ==
    IF Len(a) # Len(b) THEN Len(a) < Len(b) ELSE BigLessFrom(a, b, Len(a))

RECURSIVE SubRec(_, _, _)
SubRec(a, b, c) ==
    IF a = <<>> THEN <<>>
    ELSE LET x == Limb(a) - Limb(b) - c
         IN  IF x < 0 THEN <<x + 256>> \o SubRec(Rest(a), Rest(b), 1)
             ELSE <<x>> \o SubRec(Rest(a), Rest(b), 0)

\* a - b, for b <= a
BigSub(a, b) == Norm(SubRec(a, b, 0))

RECURSIVE ScaleRec(_, _, _)
ScaleRec(a, d, c) ==
    IF a = <<>> THEN (IF c = 0 THEN <<>> ELSE <<c % 256>> \o ScaleRec(<<>>, d, c \div 256))
    ELSE LET x == Head(a) * d + c
         IN  <<x % 256>> \o ScaleRec(Tail(a), d, x \div 256)

RECURSIVE MulRec(_, _)
MulRec(a, b) ==
    IF b = <<>> THEN <<>>
    ELSE BigAdd(ScaleRec(a, Head(b), 0), <<0>> \o MulRec(a, Tail(b)))

BigMul(a, b) == Norm(MulRec(a, b))

\* Option<T>
None == <<>>
Some(x) == <<x>>

\* the integer types of the source
FitsU128(x) == Len(x) <= 16
FitsU64(x) == Len(x) <= 8

\* a result of the arithmetic, if it fits 128 bits
u128_checked(r) == IF FitsU128(r) THEN Some(r) ELSE None

\* u128::wrapping_mul in the place of u128::checked_mul
checked_mul_wrapping(a, b) ==
    Some(Norm(SubSeq(BigMul(a, b), 1, IF Len(BigMul(a, b)) < 16 THEN Len(BigMul(a, b)) ELSE 16)))

\* u128::checked_add, u128::checked_sub, u128::checked_mul, u128::saturating_sub
checked_add(a, b) == u128_checked(BigAdd(a, b))
checked_sub(a, b) == IF BigLess(a, b) THEN None ELSE Some(BigSub(a, b))
checked_mul(a, b) == u128_checked(BigMul(a, b))
saturating_sub(a, b) == IF BigLess(a, b) THEN <<>> ELSE BigSub(a, b)

\* u64::try_from(u128)
try_into_u64(x) == IF FitsU64(x) THEN Some(x) ELSE None

(***************************************************************************)
(* Byte strings.                                                           *)
(***************************************************************************)
IsByte(atom) == Len(atom) = 1
AtomLen(atom) == IF IsByte(atom) THEN 1 ELSE 32

RECURSIVE ByteLen(_)
ByteLen(bytes) == IF bytes = <<>> THEN 0 ELSE AtomLen(Head(bytes)) + ByteLen(Tail(bytes))

\* the atoms that start at byte offset off (0-based), for an offset on an atom boundary
RECURSIVE DropBytes(_, _)
DropBytes(bytes, off) ==
    IF off <= 0 \/ bytes = <<>> THEN bytes
    ELSE DropBytes(Tail(bytes), off - AtomLen(Head(bytes)))

\* the first n bytes, for n on an atom boundary
RECURSIVE TakeBytes(_, _)
TakeBytes(bytes, n) ==
    IF n <= 0 \/ bytes = <<>> THEN <<>>
    ELSE <<Head(bytes)>> \o TakeBytes(Tail(bytes), n - AtomLen(Head(bytes)))

\* data[from..to] of the source (from inclusive, to exclusive)
Slice(bytes, from, to) == TakeBytes(DropBytes(bytes, from), to - from)

\* the byte at offset off, for plain bytes
ByteAt(bytes, off) == DropBytes(bytes, off)[1][1]

\* n as w little-endian bytes (n.to_le_bytes())
RECURSIVE PadTo(_, _)
PadTo(s, w) == IF Len(s) >= w THEN s ELSE PadTo(s \o <<0>>, w)
ToLeBytes(x, w) == LET p == PadTo(x, w) IN [i \in 1..w |-> <<p[i]>>]

\* u128::from_le_bytes on 16 plain bytes
FromLeBytes(bytes) == Norm([i \in 1..Len(bytes) |-> bytes[i][1]])

\* the 32 bytes of a digest, as a byte string (as_slice())
Bytes32(block) == <<block>>

\* [0u8; 32]
Zero32 == <<0, 0>>

\* a length-prefixed flattening of a byte string: injective
RECURSIVE Ser(_)
Ser(bytes) == IF bytes = <<>> THEN <<>>
              ELSE <<Len(Head(bytes))>> \o Head(bytes) \o Ser(Tail(bytes))

\* blake2b-256 with the CKB personalisation (CellOutput::calc_data_hash)
calc_data_hash(bytes) == <<-2, Len(bytes)>> \o Ser(bytes)

\* Script::calc_script_hash: the digest of the serialised script
calc_script_hash(script) ==
    <<-3, script.hash_type>> \o Ser(<<script.code_hash>> \o script.args)

(***************************************************************************)
(* Scripts, cells, transactions and the syscalls the validators use.       *)
(*   Script   [code_hash: atom, hash_type: byte, args: bytes]              *)
(*   Cell     [capacity: u64, lock: Script, type: Option<Script>, data]    *)
(*   an input cell also carries out_point [tx_hash: atom, index: u32]      *)
(***************************************************************************)
Script(code_hash, hash_type, args) ==
    [code_hash |-> code_hash, hash_type |-> hash_type, args |-> args]

Cell(capacity, lock, type, data) ==
    [capacity |-> capacity, lock |-> lock, type |-> type, data |-> data]

Spend(out_point, cell) ==
    [out_point |-> out_point, capacity |-> cell.capacity, lock |-> cell.lock,
     type |-> cell.type, data |-> cell.data]

\* the cells of Source::Input / Source::Output
Cells(t, source) == IF source = "Input" THEN t.inputs ELSE t.outputs

load_cell_type_hash(cell) ==
    IF cell.type = None THEN None ELSE Some(calc_script_hash(cell.type[1]))

load_cell_lock_hash(cell) == calc_script_hash(cell.lock)

\* Result<T, Error>
Ok(v) == [ok |-> TRUE, val |-> v, err |-> 0]
Err(e) == [ok |-> FALSE, val |-> <<>>, err |-> e]

\* the `?` operator: the rest of the function runs on the unwrapped value, an error
\* is returned as it is
Try(r, Then(_)) == IF r.ok THEN Then(r.val) ELSE r

\* a `let` binding
Let(v, In(_)) == In(v)

\* Option::ok_or
ok_or(opt, e) == IF opt = None THEN Err(e) ELSE Ok(opt[1])

\* error codes shared by both scripts (From<SysError>)
IndexOutOfBound == 1
ItemMissing == 2
LengthNotEnough == 3
Encoding == 4

(***************************************************************************)
(* Market Token type script (contracts/market-token/src/main.rs)           *)
(***************************************************************************)
InvalidTokenId == 10
UnauthorizedMinting == 11
InvalidDataLength == 12
LimitOrderPaymentMismatch == 20
LimitOrderInvalidAmount == 21

TOKEN_YES == 1
TOKEN_NO == 2

\* TokenType::from_u8 with every byte taken as a side
TokenType_from_u8_unchecked(value) == Ok(value)

TokenType_from_u8(value) ==
    IF value = TOKEN_YES \/ value = TOKEN_NO THEN Ok(value) ELSE Err(InvalidTokenId)

TypeScriptArgs_from_bytes(data) ==
    IF ByteLen(data) < 33 THEN Err(LengthNotEnough)
    ELSE Try(TokenType_from_u8(ByteAt(data, 32)), LAMBDA token_id :
             Ok([market_type_hash |-> Slice(data, 0, 32), token_id |-> token_id]))

\* parse_token_data reading the leading 16 or 32 bytes of a longer payload
parse_token_data_prefix(data) ==
    IF ByteLen(data) >= 32 THEN
        Ok([amount |-> FromLeBytes(Slice(data, 0, 16)),
            limit_price |-> FromLeBytes(Slice(data, 16, 32))])
    ELSE IF ByteLen(data) >= 16 THEN
        Ok([amount |-> FromLeBytes(Slice(data, 0, 16)), limit_price |-> <<>>])
    ELSE Err(InvalidDataLength)

parse_token_data(data) ==
    IF ByteLen(data) = 16 THEN
        Ok([amount |-> FromLeBytes(Slice(data, 0, 16)), limit_price |-> <<>>])
    ELSE IF ByteLen(data) = 32 THEN
        Ok([amount |-> FromLeBytes(Slice(data, 0, 16)),
            limit_price |-> FromLeBytes(Slice(data, 16, 32))])
    ELSE Err(InvalidDataLength)

RECURSIVE sum_token_amounts_from(_, _, _, _)
sum_token_amounts_from(cells, current_script_hash, i, total) ==
    IF i > Len(cells) THEN Ok(total)
    ELSE IF load_cell_type_hash(cells[i]) = Some(current_script_hash) THEN
        Try(parse_token_data(cells[i].data), LAMBDA parsed :
        Try(ok_or(checked_add(total, parsed.amount), Encoding), LAMBDA sum :
            sum_token_amounts_from(cells, current_script_hash, i + 1, sum)))
    ELSE sum_token_amounts_from(cells, current_script_hash, i + 1, total)

sum_token_amounts(t, script, source) ==
    sum_token_amounts_from(Cells(t, source), calc_script_hash(script), 1, <<>>)

market_cell_in_inputs(t, market_type_hash) ==
    \E i \in 1..Len(t.inputs) :
        /\ load_cell_type_hash(t.inputs[i]) # None
        /\ Bytes32(load_cell_type_hash(t.inputs[i])[1]) = market_type_hash

\* find_matching_output_from with the price of the output not compared
RECURSIVE find_matching_output_any_price(_, _, _, _, _)
find_matching_output_any_price(t, script, input_lock, input_price, i) ==
    IF i > Len(t.outputs) THEN Ok(<<>>)
    ELSE IF load_cell_type_hash(t.outputs[i]) # Some(calc_script_hash(script))
      THEN find_matching_output_any_price(t, script, input_lock, input_price, i + 1)
    ELSE IF t.outputs[i].lock.code_hash # input_lock.code_hash
      THEN find_matching_output_any_price(t, script, input_lock, input_price, i + 1)
    ELSE IF t.outputs[i].lock.args # input_lock.args
      THEN find_matching_output_any_price(t, script, input_lock, input_price, i + 1)
    ELSE Try(parse_token_data(t.outputs[i].data), LAMBDA parsed : Ok(parsed.amount))

RECURSIVE find_matching_output_from(_, _, _, _, _)
find_matching_output_from(t, script, input_lock, input_price, i) ==
    IF i > Len(t.outputs) THEN Ok(<<>>)
    ELSE IF load_cell_type_hash(t.outputs[i]) # Some(calc_script_hash(script))
      THEN find_matching_output_from(t, script, input_lock, input_price, i + 1)
    ELSE IF t.outputs[i].lock.code_hash # input_lock.code_hash
      THEN find_matching_output_from(t, script, input_lock, input_price, i + 1)
    ELSE IF t.outputs[i].lock.args # input_lock.args
      THEN find_matching_output_from(t, script, input_lock, input_price, i + 1)
    ELSE Try(parse_token_data(t.outputs[i].data), LAMBDA parsed :
             IF parsed.limit_price = input_price THEN Ok(parsed.amount)
             ELSE find_matching_output_from(t, script, input_lock, input_price, i + 1))

find_matching_output_amount(t, script, input_index, input_price) ==
    find_matching_output_from(t, script, t.inputs[input_index].lock, input_price, 1)

\* sum_plain_capacity_from stopping at the first cell of the seller
RECURSIVE sum_plain_capacity_first_only(_, _, _, _)
sum_plain_capacity_first_only(cells, seller_lock_hash, i, total) ==
    IF i > Len(cells) THEN Ok(total)
    ELSE IF cells[i].type = None /\ Bytes32(load_cell_lock_hash(cells[i])) = seller_lock_hash THEN
        ok_or(checked_add(total, cells[i].capacity), Encoding)
    ELSE sum_plain_capacity_first_only(cells, seller_lock_hash, i + 1, total)

\* the capacities of the type-less cells whose lock hash is the seller key, summed
RECURSIVE sum_plain_capacity_from(_, _, _, _)
sum_plain_capacity_from(cells, seller_lock_hash, i, total) ==
    IF i > Len(cells) THEN Ok(total)
    ELSE IF cells[i].type = None /\ Bytes32(load_cell_lock_hash(cells[i])) = seller_lock_hash THEN
        Try(ok_or(checked_add(total, cells[i].capacity), Encoding), LAMBDA sum :
            sum_plain_capacity_from(cells, seller_lock_hash, i + 1, sum))
    ELSE sum_plain_capacity_from(cells, seller_lock_hash, i + 1, total)

calc_net_ckb_payment_to_seller(t, input_index) ==
    Let(t.inputs[input_index].lock.args, LAMBDA seller_lock_hash :
    Try(sum_plain_capacity_from(t.outputs, seller_lock_hash, 1, <<>>), LAMBDA output_total :
    Try(sum_plain_capacity_from(t.inputs, seller_lock_hash, 1, <<>>), LAMBDA input_total :
        Ok([net_payment |-> saturating_sub(output_total, input_total),
            buyer_is_seller |->
                \E i \in 1..Len(t.inputs) :
                    /\ t.inputs[i].type = None
                    /\ Bytes32(load_cell_lock_hash(t.inputs[i])) = seller_lock_hash]))))

\* calc_required_payment with an oversized remainder counted as nothing sold
calc_required_payment_saturating(t, script, input_index, input_amount, limit_price) ==
    Try(find_matching_output_amount(t, script, input_index, limit_price), LAMBDA output_amount :
        ok_or(checked_mul(saturating_sub(input_amount, output_amount), limit_price), Encoding))

calc_required_payment(t, script, input_index, input_amount, limit_price) ==
    Try(find_matching_output_amount(t, script, input_index, limit_price), LAMBDA output_amount :
        IF BigLess(input_amount, output_amount) THEN Err(LimitOrderInvalidAmount)
        ELSE ok_or(checked_mul(BigSub(input_amount, output_amount), limit_price), Encoding))

\* seller_already_processed with no earlier input ever reported as the same seller
seller_already_processed_never(t, input_index, seller_lock_hash, current_script_hash) ==
    Ok(FALSE)

RECURSIVE seller_already_processed_from(_, _, _, _, _)
seller_already_processed_from(t, input_index, seller_lock_hash, current_script_hash, j) ==
    IF j >= input_index \/ j > Len(t.inputs) THEN Ok(FALSE)
    ELSE IF load_cell_type_hash(t.inputs[j]) = Some(current_script_hash) THEN
        Try(parse_token_data(t.inputs[j].data), LAMBDA parsed :
            IF parsed.limit_price # <<>> /\ t.inputs[j].lock.args = seller_lock_hash
              THEN Ok(TRUE)
            ELSE seller_already_processed_from(t, input_index, seller_lock_hash,
                                               current_script_hash, j + 1))
    ELSE seller_already_processed_from(t, input_index, seller_lock_hash,
                                       current_script_hash, j + 1)

seller_already_processed(t, input_index, seller_lock_hash, current_script_hash) ==
    seller_already_processed_from(t, input_index, seller_lock_hash, current_script_hash, 1)

\* sum_later_orders with the later orders of every seller added to the total
RECURSIVE sum_later_orders_any_seller(_, _, _, _, _)
sum_later_orders_any_seller(t, script, seller_lock_hash, j, total_required) ==
    IF j > Len(t.inputs) THEN Ok(total_required)
    ELSE IF load_cell_type_hash(t.inputs[j]) = Some(calc_script_hash(script)) THEN
        Try(parse_token_data(t.inputs[j].data), LAMBDA parsed :
            IF parsed.limit_price # <<>> THEN
                Try(calc_required_payment(t, script, j, parsed.amount, parsed.limit_price),
                    LAMBDA req_j :
                Try(ok_or(checked_add(total_required, req_j), Encoding), LAMBDA sum :
                    sum_later_orders_any_seller(t, script, seller_lock_hash, j + 1, sum)))
            ELSE sum_later_orders_any_seller(t, script, seller_lock_hash, j + 1,
                                             total_required))
    ELSE sum_later_orders_any_seller(t, script, seller_lock_hash, j + 1, total_required)

\* the inner loop of validate_limit_orders_cumulative: the later inputs of the same seller
RECURSIVE sum_later_orders(_, _, _, _, _)
sum_later_orders(t, script, seller_lock_hash, j, total_required) ==
    IF j > Len(t.inputs) THEN Ok(total_required)
    ELSE IF load_cell_type_hash(t.inputs[j]) = Some(calc_script_hash(script)) THEN
        Try(parse_token_data(t.inputs[j].data), LAMBDA parsed :
            IF parsed.limit_price # <<>> /\ t.inputs[j].lock.args = seller_lock_hash THEN
                Try(calc_required_payment(t, script, j, parsed.amount, parsed.limit_price),
                    LAMBDA req_j :
                Try(ok_or(checked_add(total_required, req_j), Encoding), LAMBDA sum :
                    sum_later_orders(t, script, seller_lock_hash, j + 1, sum)))
            ELSE sum_later_orders(t, script, seller_lock_hash, j + 1, total_required))
    ELSE sum_later_orders(t, script, seller_lock_hash, j + 1, total_required)

\* total_required of the group that starts at order input i: the order itself and
\* the later orders of the same seller
seller_group_total(t, script, i, amount, limit_price) ==
    Try(calc_required_payment(t, script, i, amount, limit_price), LAMBDA req :
    Try(ok_or(checked_add(<<>>, req), Encoding), LAMBDA first_required :
        sum_later_orders(t, script, t.inputs[i].lock.args, i + 1, first_required)))

\* validate_seller_group with only underpayment rejected
validate_seller_group_underpaid_only(t, script, i, amount, limit_price) ==
    Try(calc_required_payment(t, script, i, amount, limit_price), LAMBDA req :
    Try(ok_or(checked_add(<<>>, req), Encoding), LAMBDA first_required :
    Try(sum_later_orders(t, script, t.inputs[i].lock.args, i + 1, first_required),
        LAMBDA total_required :
    Try(calc_net_ckb_payment_to_seller(t, i), LAMBDA paid :
        IF ~paid.buyer_is_seller /\ BigLess(paid.net_payment, total_required)
          THEN Err(LimitOrderPaymentMismatch)
        ELSE Ok(<<>>)))))

\* validate_seller_group with the payment compared even when the buyer is the seller
validate_seller_group_no_exemption(t, script, i, amount, limit_price) ==
    Try(calc_required_payment(t, script, i, amount, limit_price), LAMBDA req :
    Try(ok_or(checked_add(<<>>, req), Encoding), LAMBDA first_required :
    Try(sum_later_orders(t, script, t.inputs[i].lock.args, i + 1, first_required),
        LAMBDA total_required :
    Try(calc_net_ckb_payment_to_seller(t, i), LAMBDA paid :
        IF paid.net_payment # total_required
          THEN Err(LimitOrderPaymentMismatch)
        ELSE Ok(<<>>)))))

\* validate_seller_group with no payment comparison when nothing was sold
validate_seller_group_free_cancellation(t, script, i, amount, limit_price) ==
    Try(calc_required_payment(t, script, i, amount, limit_price), LAMBDA req :
    Try(ok_or(checked_add(<<>>, req), Encoding), LAMBDA first_required :
    Try(sum_later_orders(t, script, t.inputs[i].lock.args, i + 1, first_required),
        LAMBDA total_required :
    Try(calc_net_ckb_payment_to_seller(t, i), LAMBDA paid :
        IF /\ ~paid.buyer_is_seller
           /\ total_required # <<>>
           /\ paid.net_payment # total_required
          THEN Err(LimitOrderPaymentMismatch)
        ELSE Ok(<<>>)))))

\* the body of the outer loop for the first order input i of a seller
validate_seller_group(t, script, i, amount, limit_price) ==
    Try(calc_required_payment(t, script, i, amount, limit_price), LAMBDA req :
    Try(ok_or(checked_add(<<>>, req), Encoding), LAMBDA first_required :
    Try(sum_later_orders(t, script, t.inputs[i].lock.args, i + 1, first_required),
        LAMBDA total_required :
    Try(calc_net_ckb_payment_to_seller(t, i), LAMBDA paid :
        IF ~paid.buyer_is_seller /\ paid.net_payment # total_required
          THEN Err(LimitOrderPaymentMismatch)
        ELSE Ok(<<>>)))))

\* validate_limit_orders_from returning after the first seller group it checks
RECURSIVE validate_limit_orders_first_group_only(_, _, _)
validate_limit_orders_first_group_only(t, script, i) ==
    IF i > Len(t.inputs) THEN Ok(<<>>)
    ELSE IF load_cell_type_hash(t.inputs[i]) = Some(calc_script_hash(script)) THEN
        Try(parse_token_data(t.inputs[i].data), LAMBDA parsed :
            IF parsed.limit_price # <<>> THEN
                Try(validate_seller_group(t, script, i, parsed.amount,
                                          parsed.limit_price), LAMBDA group : Ok(<<>>))
            ELSE validate_limit_orders_first_group_only(t, script, i + 1))
    ELSE validate_limit_orders_first_group_only(t, script, i + 1)

RECURSIVE validate_limit_orders_from(_, _, _)
validate_limit_orders_from(t, script, i) ==
    IF i > Len(t.inputs) THEN Ok(<<>>)
    ELSE IF load_cell_type_hash(t.inputs[i]) = Some(calc_script_hash(script)) THEN
        Try(parse_token_data(t.inputs[i].data), LAMBDA parsed :
            IF parsed.limit_price # <<>> THEN
                Try(seller_already_processed(t, i, t.inputs[i].lock.args,
                                             calc_script_hash(script)), LAMBDA seen :
                    IF seen THEN validate_limit_orders_from(t, script, i + 1)
                    ELSE Try(validate_seller_group(t, script, i, parsed.amount,
                                                   parsed.limit_price), LAMBDA group :
                             validate_limit_orders_from(t, script, i + 1)))
            ELSE validate_limit_orders_from(t, script, i + 1))
    ELSE validate_limit_orders_from(t, script, i + 1)

validate_limit_orders_cumulative(t, script) == validate_limit_orders_from(t, script, 1)

(***************************************************************************)
(* The index-based grouping the specification describes as an alternative  *)
(* to the nested scan: a map from seller key to the list of order-input    *)
(* indices, built once per validation, then one payment check per key.     *)
(* The map is a sequence of [key, indices] entries in order of first       *)
(* occurrence.                                                             *)
(***************************************************************************)
index_insert(index, key, i) ==
    IF \E g \in 1..Len(index) : index[g].key = key
      THEN [g \in 1..Len(index) |->
               IF index[g].key = key
                 THEN [key |-> key, indices |-> Append(index[g].indices, i)]
               ELSE index[g]]
    ELSE Append(index, [key |-> key, indices |-> <<i>>])

RECURSIVE build_order_index_from(_, _, _, _)
build_order_index_from(t, script, i, index) ==
    IF i > Len(t.inputs) THEN Ok(index)
    ELSE IF load_cell_type_hash(t.inputs[i]) = Some(calc_script_hash(script)) THEN
        Try(parse_token_data(t.inputs[i].data), LAMBDA parsed :
            IF parsed.limit_price # <<>>
              THEN build_order_index_from(t, script, i + 1,
                                          index_insert(index, t.inputs[i].lock.args, i))
            ELSE build_order_index_from(t, script, i + 1, index))
    ELSE build_order_index_from(t, script, i + 1, index)

\* the required total of the orders listed in `indices`, from position k on
RECURSIVE indexed_group_total(_, _, _, _, _)
indexed_group_total(t, script, indices, k, total_required) ==
    IF k > Len(indices) THEN Ok(total_required)
    ELSE Try(parse_token_data(t.inputs[indices[k]].data), LAMBDA parsed :
         Try(calc_required_payment(t, script, indices[k], parsed.amount, parsed.limit_price),
             LAMBDA req :
         Try(ok_or(checked_add(total_required, req), Encoding), LAMBDA sum :
             indexed_group_total(t, script, indices, k + 1, sum))))

RECURSIVE validate_indexed_groups_from(_, _, _, _)
validate_indexed_groups_from(t, script, index, g) ==
    IF g > Len(index) THEN Ok(<<>>)
    ELSE Try(indexed_group_total(t, script, index[g].indices, 1, <<>>),
             LAMBDA total_required :
         Try(calc_net_ckb_payment_to_seller(t, index[g].indices[1]), LAMBDA paid :
             IF ~paid.buyer_is_seller /\ paid.net_payment # total_required
               THEN Err(LimitOrderPaymentMismatch)
             ELSE validate_indexed_groups_from(t, script, index, g + 1)))

validate_limit_orders_indexed(t, script) ==
    Try(build_order_index_from(t, script, 1, <<>>), LAMBDA index :
        validate_indexed_groups_from(t, script, index, 1))

\* token_main with the conservation comparison taken the wrong way round
token_main_reversed_conservation(t, script) ==
    Try(TypeScriptArgs_from_bytes(script.args), LAMBDA args :
    Try(sum_token_amounts(t, script, "Input"), LAMBDA input_amount :
    Try(sum_token_amounts(t, script, "Output"), LAMBDA output_amount :
        IF market_cell_in_inputs(t, args.market_type_hash) THEN Ok(<<>>)
        ELSE IF BigLess(output_amount, input_amount) THEN Err(UnauthorizedMinting)
        ELSE validate_limit_orders_cumulative(t, script))))

\* token_main without the early return for a co-spent market cell
token_main_no_delegation(t, script) ==
    Try(TypeScriptArgs_from_bytes(script.args), LAMBDA args :
    Try(sum_token_amounts(t, script, "Input"), LAMBDA input_amount :
    Try(sum_token_amounts(t, script, "Output"), LAMBDA output_amount :
        IF BigLess(input_amount, output_amount) THEN Err(UnauthorizedMinting)
        ELSE validate_limit_orders_cumulative(t, script))))

\* token_main without the comparison of the output total with the input total
token_main_minting_allowed(t, script) ==
    Try(TypeScriptArgs_from_bytes(script.args), LAMBDA args :
    Try(sum_token_amounts(t, script, "Input"), LAMBDA input_amount :
    Try(sum_token_amounts(t, script, "Output"), LAMBDA output_amount :
        IF market_cell_in_inputs(t, args.market_type_hash) THEN Ok(<<>>)
        ELSE validate_limit_orders_cumulative(t, script))))

\* main of the token script, for the script group `script` of transaction t
token_main(t, script) ==
    Try(TypeScriptArgs_from_bytes(script.args), LAMBDA args :
    Try(sum_token_amounts(t, script, "Input"), LAMBDA input_amount :
    Try(sum_token_amounts(t, script, "Output"), LAMBDA output_amount :
        IF market_cell_in_inputs(t, args.market_type_hash) THEN Ok(<<>>)
        ELSE IF BigLess(input_amount, output_amount) THEN Err(UnauthorizedMinting)
        ELSE validate_limit_orders_cumulative(t, script))))

\* program_entry of the token script reporting the error relative to InvalidTokenId
token_program_entry_relative_code(t, script) ==
    Let(token_main(t, script), LAMBDA r : IF r.ok THEN 0 ELSE r.err - InvalidTokenId)

\* program_entry of the token script: 0 or the error code
token_program_entry(t, script) ==
    Let(token_main(t, script), LAMBDA r : IF r.ok THEN 0 ELSE r.err)

(***************************************************************************)
(* Market type script (contracts/market/src/main.rs)                       *)
(***************************************************************************)
InvalidMarketData == 10
MultipleMarketCells == 11
SupplyDecrease == 12
UnequalSupplyIncrease == 13
InsufficientCollateral == 14
LockScriptChanged == 15
InvalidTypeId == 20
TypeIdMismatch == 21

\* 10_000_000_000 shannons (100 CKB) per token: 0x02_540B_E400, little-endian
SHANNONS_PER_TOKEN == <<0, 228, 11, 84, 2>>

\* MarketData::from_bytes asking for 34 bytes, the outcome read when there is a byte 34
MarketData_from_bytes_34(data) ==
    IF ByteLen(data) < 34 THEN Err(LengthNotEnough)
    ELSE Ok([token_code_hash |-> Slice(data, 0, 32),
             hash_type |-> ByteAt(data, 32),
             resolved |-> ByteAt(data, 33) # 0,
             outcome |-> ByteLen(data) > 34 /\ ByteAt(data, 34) # 0])

MarketData_from_bytes(data) ==
    IF ByteLen(data) < 35 THEN Err(LengthNotEnough)
    ELSE Ok([token_code_hash |-> Slice(data, 0, 32),
             hash_type |-> ByteAt(data, 32),
             resolved |-> ByteAt(data, 33) # 0,
             outcome |-> ByteAt(data, 34) # 0])

MarketData_to_bytes(d) ==
    d.token_code_hash \o <<<<d.hash_type>>, <<IF d.resolved THEN 1 ELSE 0>>,
                           <<IF d.outcome THEN 1 ELSE 0>>>>

\* the indices of the cells of a source whose type hash is the running script's
MarketCellIndices(t, script, source) ==
    {i \in 1..Len(Cells(t, source)) :
        load_cell_type_hash(Cells(t, source)[i]) = Some(calc_script_hash(script))}

Min(S) == CHOOSE i \in S : \A j \in S : i <= j

count_market_cells(t, script, source) == Cardinality(MarketCellIndices(t, script, source))

load_market_data(t, script, source) ==
    Let(MarketCellIndices(t, script, source), LAMBDA found :
        IF found = {} THEN Err(ItemMissing)
        ELSE MarketData_from_bytes(Cells(t, source)[Min(found)].data))

load_market_capacity(t, script, source) ==
    Let(MarketCellIndices(t, script, source), LAMBDA found :
        IF found = {} THEN Err(ItemMissing)
        ELSE Ok(Cells(t, source)[Min(found)].capacity))

load_market_lock(t, script, source) ==
    Let(MarketCellIndices(t, script, source), LAMBDA found :
        IF found = {} THEN Err(ItemMissing)
        ELSE Ok(Cells(t, source)[Min(found)].lock))

\* has_witness: the witness of the first input of the script group parses and its
\* lock field is present and not empty
has_witness(t, script) ==
    Let(MarketCellIndices(t, script, "Input"), LAMBDA group :
        IF group = {} THEN FALSE
        ELSE IF Min(group) > Len(t.witnesses) THEN FALSE
        ELSE IF t.witnesses[Min(group)].lock = None THEN FALSE
        ELSE ByteLen(t.witnesses[Min(group)].lock[1]) > 0)

derive_token_type_hash(token_code_hash, hash_type, market_type_hash, token_id) ==
    IF hash_type \notin {0, 1, 2, 4} THEN Err(Encoding)
    ELSE Ok(calc_script_hash(Script(token_code_hash[1], hash_type,
                                    Bytes32(market_type_hash) \o <<<<token_id>>>>)))

RECURSIVE count_tokens_from(_, _, _, _, _)
count_tokens_from(cells, expected_yes_hash, expected_no_hash, i, counts) ==
    IF i > Len(cells) THEN Ok(counts)
    ELSE IF load_cell_type_hash(cells[i]) = Some(expected_yes_hash) THEN
        IF ByteLen(cells[i].data) < 16 THEN Err(LengthNotEnough)
        ELSE Try(ok_or(checked_add(counts.yes_tokens, FromLeBytes(Slice(cells[i].data, 0, 16))),
                       Encoding), LAMBDA sum :
                 count_tokens_from(cells, expected_yes_hash, expected_no_hash, i + 1,
                                   [counts EXCEPT !.yes_tokens = sum]))
    ELSE IF load_cell_type_hash(cells[i]) = Some(expected_no_hash) THEN
        IF ByteLen(cells[i].data) < 16 THEN Err(LengthNotEnough)
        ELSE Try(ok_or(checked_add(counts.no_tokens, FromLeBytes(Slice(cells[i].data, 0, 16))),
                       Encoding), LAMBDA sum :
                 count_tokens_from(cells, expected_yes_hash, expected_no_hash, i + 1,
                                   [counts EXCEPT !.no_tokens = sum]))
    ELSE count_tokens_from(cells, expected_yes_hash, expected_no_hash, i + 1, counts)

count_tokens(t, source, expected_yes_hash, expected_no_hash) ==
    count_tokens_from(Cells(t, source), expected_yes_hash, expected_no_hash, 1,
                      [yes_tokens |-> <<>>, no_tokens |-> <<>>])

\* validate_creation without the check of token_code_hash
validate_creation_zero_hash_allowed(output_data) ==
    IF output_data.resolved THEN Err(InvalidMarketData)
    ELSE Ok(<<>>)

validate_creation(output_data) ==
    IF output_data.resolved THEN Err(InvalidMarketData)
    ELSE IF output_data.token_code_hash = Bytes32(Zero32) THEN Err(InvalidMarketData)
    ELSE Ok(<<>>)

\* validate_lock_preserved comparing the code of the two locks only
validate_lock_preserved_code_only(t, script) ==
    Try(load_market_lock(t, script, "Input"), LAMBDA input_lock :
    Try(load_market_lock(t, script, "Output"), LAMBDA output_lock :
        IF input_lock.code_hash # output_lock.code_hash THEN Err(LockScriptChanged) ELSE Ok(<<>>)))

validate_lock_preserved(t, script) ==
    Try(load_market_lock(t, script, "Input"), LAMBDA input_lock :
    Try(load_market_lock(t, script, "Output"), LAMBDA output_lock :
        IF input_lock # output_lock THEN Err(LockScriptChanged) ELSE Ok(<<>>)))

\* validate_claim with the losing side allowed to shrink
validate_claim_losing_may_shrink(market_data, input_capacity, output_capacity, input_counts, output_counts) ==
    Try(IF market_data.outcome
        THEN Try(ok_or(checked_sub(input_counts.yes_tokens, output_counts.yes_tokens), Encoding),
                 LAMBDA yes_burned :
                 Ok([winning_burned |-> yes_burned, losing_input |-> input_counts.no_tokens,
                     losing_output |-> output_counts.no_tokens]))
        ELSE Try(ok_or(checked_sub(input_counts.no_tokens, output_counts.no_tokens), Encoding),
                 LAMBDA no_burned :
                 Ok([winning_burned |-> no_burned, losing_input |-> input_counts.yes_tokens,
                     losing_output |-> output_counts.yes_tokens])),
        LAMBDA sides :
        IF BigLess(sides.losing_input, sides.losing_output) THEN Err(InvalidMarketData)
        ELSE IF sides.winning_burned = <<>> THEN Err(SupplyDecrease)
        ELSE Try(ok_or(checked_mul(sides.winning_burned, SHANNONS_PER_TOKEN), Encoding),
                 LAMBDA expected_capacity_decrease :
             Try(ok_or(try_into_u64(expected_capacity_decrease), Encoding),
                 LAMBDA expected_capacity_u64 :
                 IF BigSub(input_capacity, output_capacity) # expected_capacity_u64
                   THEN Err(InsufficientCollateral)
                 ELSE Ok(<<>>))))

\* validate_claim with the sides exchanged: the losing side is redeemed
validate_claim_pays_loser(market_data, input_capacity, output_capacity, input_counts, output_counts) ==
    Try(IF ~market_data.outcome
        THEN Try(ok_or(checked_sub(input_counts.yes_tokens, output_counts.yes_tokens), Encoding),
                 LAMBDA yes_burned :
                 Ok([winning_burned |-> yes_burned, losing_input |-> input_counts.no_tokens,
                     losing_output |-> output_counts.no_tokens]))
        ELSE Try(ok_or(checked_sub(input_counts.no_tokens, output_counts.no_tokens), Encoding),
                 LAMBDA no_burned :
                 Ok([winning_burned |-> no_burned, losing_input |-> input_counts.yes_tokens,
                     losing_output |-> output_counts.yes_tokens])),
        LAMBDA sides :
        IF sides.losing_output # sides.losing_input THEN Err(InvalidMarketData)
        ELSE IF sides.winning_burned = <<>> THEN Err(SupplyDecrease)
        ELSE Try(ok_or(checked_mul(sides.winning_burned, SHANNONS_PER_TOKEN), Encoding),
                 LAMBDA expected_capacity_decrease :
             Try(ok_or(try_into_u64(expected_capacity_decrease), Encoding),
                 LAMBDA expected_capacity_u64 :
                 IF BigSub(input_capacity, output_capacity) # expected_capacity_u64
                   THEN Err(InsufficientCollateral)
                 ELSE Ok(<<>>))))

\* validate_claim with the ratio taken per CKB (100_000_000 shannons) instead of per token
validate_claim_ratio_per_ckb(market_data, input_capacity, output_capacity, input_counts, output_counts) ==
    Try(IF market_data.outcome
        THEN Try(ok_or(checked_sub(input_counts.yes_tokens, output_counts.yes_tokens), Encoding),
                 LAMBDA yes_burned :
                 Ok([winning_burned |-> yes_burned, losing_input |-> input_counts.no_tokens,
                     losing_output |-> output_counts.no_tokens]))
        ELSE Try(ok_or(checked_sub(input_counts.no_tokens, output_counts.no_tokens), Encoding),
                 LAMBDA no_burned :
                 Ok([winning_burned |-> no_burned, losing_input |-> input_counts.yes_tokens,
                     losing_output |-> output_counts.yes_tokens])),
        LAMBDA sides :
        IF sides.losing_output # sides.losing_input THEN Err(InvalidMarketData)
        ELSE IF sides.winning_burned = <<>> THEN Err(SupplyDecrease)
        ELSE Try(ok_or(checked_mul(sides.winning_burned, BigMul(N(10000), N(10000))), Encoding),
                 LAMBDA expected_capacity_decrease :
             Try(ok_or(try_into_u64(expected_capacity_decrease), Encoding),
                 LAMBDA expected_capacity_u64 :
                 IF BigSub(input_capacity, output_capacity) # expected_capacity_u64
                   THEN Err(InsufficientCollateral)
                 ELSE Ok(<<>>))))

validate_claim(market_data, input_capacity, output_capacity, input_counts, output_counts) ==
    Try(IF market_data.outcome
        THEN Try(ok_or(checked_sub(input_counts.yes_tokens, output_counts.yes_tokens), Encoding),
                 LAMBDA yes_burned :
                 Ok([winning_burned |-> yes_burned, losing_input |-> input_counts.no_tokens,
                     losing_output |-> output_counts.no_tokens]))
        ELSE Try(ok_or(checked_sub(input_counts.no_tokens, output_counts.no_tokens), Encoding),
                 LAMBDA no_burned :
                 Ok([winning_burned |-> no_burned, losing_input |-> input_counts.yes_tokens,
                     losing_output |-> output_counts.yes_tokens])),
        LAMBDA sides :
        IF sides.losing_output # sides.losing_input THEN Err(InvalidMarketData)
        ELSE IF sides.winning_burned = <<>> THEN Err(SupplyDecrease)
        ELSE Try(ok_or(checked_mul(sides.winning_burned, SHANNONS_PER_TOKEN), Encoding),
                 LAMBDA expected_capacity_decrease :
             Try(ok_or(try_into_u64(expected_capacity_decrease), Encoding),
                 LAMBDA expected_capacity_u64 :
                 IF BigSub(input_capacity, output_capacity) # expected_capacity_u64
                   THEN Err(InsufficientCollateral)
                 ELSE Ok(<<>>))))

\* validate_open_capacity without the equal-sides check on a mint
validate_open_capacity_one_sided(input_capacity, output_capacity, input_counts, output_counts) ==
    IF BigLess(output_capacity, input_capacity) THEN
        \* BURNING
        Try(ok_or(checked_sub(input_counts.yes_tokens, output_counts.yes_tokens), Encoding),
            LAMBDA yes_burned :
        Try(ok_or(checked_sub(input_counts.no_tokens, output_counts.no_tokens), Encoding),
            LAMBDA no_burned :
            IF yes_burned = <<>> /\ no_burned = <<>> THEN Err(SupplyDecrease)
            ELSE IF yes_burned # no_burned THEN Err(UnequalSupplyIncrease)
            ELSE Try(ok_or(checked_mul(yes_burned, SHANNONS_PER_TOKEN), Encoding),
                     LAMBDA expected_capacity_decrease :
                 Try(ok_or(try_into_u64(expected_capacity_decrease), Encoding),
                     LAMBDA expected_capacity_u64 :
                     IF BigSub(input_capacity, output_capacity) # expected_capacity_u64
                       THEN Err(InsufficientCollateral)
                     ELSE Ok(<<>>)))))
    ELSE IF BigLess(input_capacity, output_capacity) THEN
        \* MINTING
        Try(ok_or(checked_sub(output_counts.yes_tokens, input_counts.yes_tokens), Encoding),
            LAMBDA yes_minted :
        Try(ok_or(checked_sub(output_counts.no_tokens, input_counts.no_tokens), Encoding),
            LAMBDA no_minted :
            IF yes_minted = <<>> /\ no_minted = <<>> THEN Err(SupplyDecrease)
            ELSE Try(ok_or(checked_mul(yes_minted, SHANNONS_PER_TOKEN), Encoding),
                     LAMBDA supply_increase_shannons :
                 Try(ok_or(try_into_u64(supply_increase_shannons), Encoding),
                     LAMBDA supply_increase_u64 :
                     IF BigSub(output_capacity, input_capacity) # supply_increase_u64
                       THEN Err(InsufficientCollateral)
                     ELSE Ok(<<>>)))))
    ELSE
        \* NO OPERATION
        IF output_counts.yes_tokens # input_counts.yes_tokens THEN Err(InsufficientCollateral)
        ELSE IF output_counts.no_tokens # input_counts.no_tokens THEN Err(InsufficientCollateral)
        ELSE Ok(<<>>)

\* validate_open_capacity whose no-operation branch compares the YES totals only
validate_open_capacity_noop_yes_only(input_capacity, output_capacity, input_counts, output_counts) ==
    IF BigLess(output_capacity, input_capacity) THEN
        \* BURNING
        Try(ok_or(checked_sub(input_counts.yes_tokens, output_counts.yes_tokens), Encoding),
            LAMBDA yes_burned :
        Try(ok_or(checked_sub(input_counts.no_tokens, output_counts.no_tokens), Encoding),
            LAMBDA no_burned :
            IF yes_burned = <<>> /\ no_burned = <<>> THEN Err(SupplyDecrease)
            ELSE IF yes_burned # no_burned THEN Err(UnequalSupplyIncrease)
            ELSE Try(ok_or(checked_mul(yes_burned, SHANNONS_PER_TOKEN), Encoding),
                     LAMBDA expected_capacity_decrease :
                 Try(ok_or(try_into_u64(expected_capacity_decrease), Encoding),
                     LAMBDA expected_capacity_u64 :
                     IF BigSub(input_capacity, output_capacity) # expected_capacity_u64
                       THEN Err(InsufficientCollateral)
                     ELSE Ok(<<>>)))))
    ELSE IF BigLess(input_capacity, output_capacity) THEN
        \* MINTING
        Try(ok_or(checked_sub(output_counts.yes_tokens, input_counts.yes_tokens), Encoding),
            LAMBDA yes_minted :
        Try(ok_or(checked_sub(output_counts.no_tokens, input_counts.no_tokens), Encoding),
            LAMBDA no_minted :
            IF yes_minted = <<>> /\ no_minted = <<>> THEN Err(SupplyDecrease)
            ELSE IF yes_minted # no_minted THEN Err(UnequalSupplyIncrease)
            ELSE Try(ok_or(checked_mul(yes_minted, SHANNONS_PER_TOKEN), Encoding),
                     LAMBDA supply_increase_shannons :
                 Try(ok_or(try_into_u64(supply_increase_shannons), Encoding),
                     LAMBDA supply_increase_u64 :
                     IF BigSub(output_capacity, input_capacity) # supply_increase_u64
                       THEN Err(InsufficientCollateral)
                     ELSE Ok(<<>>)))))
    ELSE
        \* NO OPERATION
        IF output_counts.yes_tokens # input_counts.yes_tokens THEN Err(InsufficientCollateral)
        ELSE Ok(<<>>)

\* the Open-market part of validate_transition that depends on the capacity change
validate_open_capacity(input_capacity, output_capacity, input_counts, output_counts) ==
    IF BigLess(output_capacity, input_capacity) THEN
        \* BURNING
        Try(ok_or(checked_sub(input_counts.yes_tokens, output_counts.yes_tokens), Encoding),
            LAMBDA yes_burned :
        Try(ok_or(checked_sub(input_counts.no_tokens, output_counts.no_tokens), Encoding),
            LAMBDA no_burned :
            IF yes_burned = <<>> /\ no_burned = <<>> THEN Err(SupplyDecrease)
            ELSE IF yes_burned # no_burned THEN Err(UnequalSupplyIncrease)
            ELSE Try(ok_or(checked_mul(yes_burned, SHANNONS_PER_TOKEN), Encoding),
                     LAMBDA expected_capacity_decrease :
                 Try(ok_or(try_into_u64(expected_capacity_decrease), Encoding),
                     LAMBDA expected_capacity_u64 :
                     IF BigSub(input_capacity, output_capacity) # expected_capacity_u64
                       THEN Err(InsufficientCollateral)
                     ELSE Ok(<<>>)))))
    ELSE IF BigLess(input_capacity, output_capacity) THEN
        \* MINTING
        Try(ok_or(checked_sub(output_counts.yes_tokens, input_counts.yes_tokens), Encoding),
            LAMBDA yes_minted :
        Try(ok_or(checked_sub(output_counts.no_tokens, input_counts.no_tokens), Encoding),
            LAMBDA no_minted :
            IF yes_minted = <<>> /\ no_minted = <<>> THEN Err(SupplyDecrease)
            ELSE IF yes_minted # no_minted THEN Err(UnequalSupplyIncrease)
            ELSE Try(ok_or(checked_mul(yes_minted, SHANNONS_PER_TOKEN), Encoding),
                     LAMBDA supply_increase_shannons :
                 Try(ok_or(try_into_u64(supply_increase_shannons), Encoding),
                     LAMBDA supply_increase_u64 :
                     IF BigSub(output_capacity, input_capacity) # supply_increase_u64
                       THEN Err(InsufficientCollateral)
                     ELSE Ok(<<>>)))))
    ELSE
        \* NO OPERATION
        IF output_counts.yes_tokens # input_counts.yes_tokens THEN Err(InsufficientCollateral)
        ELSE IF output_counts.no_tokens # input_counts.no_tokens THEN Err(InsufficientCollateral)
        ELSE Ok(<<>>)

\* validate_resolved without the check that the market stays resolved
validate_resolved_may_reopen(input_data, output_data, input_capacity, output_capacity, input_counts, output_counts) ==
    Try(IF BigLess(output_capacity, input_capacity) THEN
            \* CLAIM
            validate_claim(input_data, input_capacity, output_capacity,
                           input_counts, output_counts)
        ELSE IF output_capacity = input_capacity THEN
            \* NO OPERATION
            IF output_counts.yes_tokens # input_counts.yes_tokens
               \/ output_counts.no_tokens # input_counts.no_tokens
            THEN Err(InvalidMarketData) ELSE Ok(<<>>)
        ELSE Err(InvalidMarketData),
        LAMBDA done :
        IF output_data.outcome # input_data.outcome THEN Err(InvalidMarketData)
        ELSE Ok(<<>>))

\* validate_resolved with a balance increase let through
validate_resolved_increase_allowed(input_data, output_data, input_capacity, output_capacity, input_counts, output_counts) ==
    Try(IF BigLess(output_capacity, input_capacity) THEN
            \* CLAIM
            validate_claim(input_data, input_capacity, output_capacity,
                           input_counts, output_counts)
        ELSE IF output_capacity = input_capacity THEN
            \* NO OPERATION
            IF output_counts.yes_tokens # input_counts.yes_tokens
               \/ output_counts.no_tokens # input_counts.no_tokens
            THEN Err(InvalidMarketData) ELSE Ok(<<>>)
        ELSE Ok(<<>>),
        LAMBDA done :
        IF ~output_data.resolved THEN Err(InvalidMarketData) ELSE
        IF output_data.outcome # input_data.outcome THEN Err(InvalidMarketData)
        ELSE Ok(<<>>))

\* the Resolved-market part of validate_transition
validate_resolved(input_data, output_data, input_capacity, output_capacity, input_counts, output_counts) ==
    Try(IF BigLess(output_capacity, input_capacity) THEN
            \* CLAIM
            validate_claim(input_data, input_capacity, output_capacity,
                           input_counts, output_counts)
        ELSE IF output_capacity = input_capacity THEN
            \* NO OPERATION
            IF output_counts.yes_tokens # input_counts.yes_tokens
               \/ output_counts.no_tokens # input_counts.no_tokens
            THEN Err(InvalidMarketData) ELSE Ok(<<>>)
        ELSE Err(InvalidMarketData),
        LAMBDA done :
        IF ~output_data.resolved THEN Err(InvalidMarketData) ELSE
        IF output_data.outcome # input_data.outcome THEN Err(InvalidMarketData)
        ELSE Ok(<<>>))

\* validate_open without the comparison of the token totals on a resolution
validate_open_resolution_unchecked(input_data, output_data, input_capacity, output_capacity, input_counts, output_counts) ==
    Try(validate_open_capacity(input_capacity, output_capacity, input_counts, output_counts),
        LAMBDA done :
        IF output_data.resolved THEN Ok(<<>>)
        ELSE IF output_data.outcome # input_data.outcome THEN Err(InvalidMarketData)
        ELSE Ok(<<>>))

\* validate_open without the comparison of the outcome fields
validate_open_outcome_unchecked(input_data, output_data, input_capacity, output_capacity, input_counts, output_counts) ==
    Try(validate_open_capacity(input_capacity, output_capacity, input_counts, output_counts),
        LAMBDA done :
        IF output_data.resolved THEN
            IF input_counts.yes_tokens # output_counts.yes_tokens THEN Err(InvalidMarketData)
            ELSE IF input_counts.no_tokens # output_counts.no_tokens THEN Err(InvalidMarketData)
            ELSE Ok(<<>>)
        ELSE Ok(<<>>))

\* the Open-market part of validate_transition
validate_open(input_data, output_data, input_capacity, output_capacity, input_counts, output_counts) ==
    Try(validate_open_capacity(input_capacity, output_capacity, input_counts, output_counts),
        LAMBDA done :
        IF output_data.resolved THEN
            \* RESOLUTION TRANSACTION
            IF input_counts.yes_tokens # output_counts.yes_tokens THEN Err(InvalidMarketData)
            ELSE IF input_counts.no_tokens # output_counts.no_tokens THEN Err(InvalidMarketData)
            ELSE Ok(<<>>)
        ELSE IF output_data.outcome # input_data.outcome THEN Err(InvalidMarketData)
        ELSE Ok(<<>>))

\* validate_transition without the comparison of hash_type
validate_transition_hash_type_unchecked(t, script, input_data, output_data) ==
    Try(validate_lock_preserved(t, script), LAMBDA lock_preserved :
        IF input_data.token_code_hash # output_data.token_code_hash
          THEN Err(InvalidMarketData)
        ELSE
    Try(load_market_capacity(t, script, "Input"), LAMBDA input_capacity :
    Try(load_market_capacity(t, script, "Output"), LAMBDA output_capacity :
    Try(derive_token_type_hash(input_data.token_code_hash, input_data.hash_type,
                               calc_script_hash(script), TOKEN_YES), LAMBDA expected_yes_hash :
    Try(derive_token_type_hash(input_data.token_code_hash, input_data.hash_type,
                               calc_script_hash(script), TOKEN_NO), LAMBDA expected_no_hash :
    Try(count_tokens(t, "Input", expected_yes_hash, expected_no_hash), LAMBDA input_counts :
    Try(count_tokens(t, "Output", expected_yes_hash, expected_no_hash), LAMBDA output_counts :
        IF input_data.resolved
        THEN validate_resolved(input_data, output_data, input_capacity, output_capacity,
                               input_counts, output_counts)
        ELSE validate_open(input_data, output_data, input_capacity, output_capacity,
                           input_counts, output_counts))))))))

validate_transition(t, script, input_data, output_data) ==
    Try(validate_lock_preserved(t, script), LAMBDA lock_preserved :
        IF input_data.token_code_hash # output_data.token_code_hash
          THEN Err(InvalidMarketData)
        ELSE IF input_data.hash_type # output_data.hash_type THEN Err(InvalidMarketData)
        ELSE
    Try(load_market_capacity(t, script, "Input"), LAMBDA input_capacity :
    Try(load_market_capacity(t, script, "Output"), LAMBDA output_capacity :
    Try(derive_token_type_hash(input_data.token_code_hash, input_data.hash_type,
                               calc_script_hash(script), TOKEN_YES), LAMBDA expected_yes_hash :
    Try(derive_token_type_hash(input_data.token_code_hash, input_data.hash_type,
                               calc_script_hash(script), TOKEN_NO), LAMBDA expected_no_hash :
    Try(count_tokens(t, "Input", expected_yes_hash, expected_no_hash), LAMBDA input_counts :
    Try(count_tokens(t, "Output", expected_yes_hash, expected_no_hash), LAMBDA output_counts :
        IF input_data.resolved
        THEN validate_resolved(input_data, output_data, input_capacity, output_capacity,
                               input_counts, output_counts)
        ELSE validate_open(input_data, output_data, input_capacity, output_capacity,
                           input_counts, output_counts))))))))

find_market_output_index(t, script) ==
    Let(MarketCellIndices(t, script, "Output"), LAMBDA found :
        IF found = {} THEN Err(ItemMissing) ELSE Ok(N(Min(found) - 1)))

\* OutPoint::as_slice(): the 32-byte transaction hash and the u32 index
OutPointBytes(out_point) == Bytes32(out_point.tx_hash) \o ToLeBytes(N(out_point.index), 4)

\* the Type ID of a market created by a transaction: blake2b(outpoint || output_index)
TypeId(out_point, output_index) ==
    calc_data_hash(OutPointBytes(out_point) \o ToLeBytes(output_index, 8))

validate_type_id_persistence(t, script, output_args) ==
    Let(MarketCellIndices(t, script, "Input"), LAMBDA group :
        IF group = {} THEN Err(IndexOutOfBound)
        ELSE IF output_args # t.inputs[Min(group)].type[1].args THEN Err(TypeIdMismatch)
        ELSE Ok(<<>>))

validate_type_id(t, script, input_count) ==
    IF ByteLen(script.args) # 32 THEN Err(InvalidTypeId)
    ELSE IF input_count = 0 THEN
        IF Len(t.inputs) = 0 THEN Err(IndexOutOfBound)
        ELSE Try(find_market_output_index(t, script), LAMBDA output_index :
                 IF script.args # Bytes32(TypeId(t.inputs[1].out_point, output_index))
                   THEN Err(InvalidTypeId)
                 ELSE Ok(<<>>))
    ELSE validate_type_id_persistence(t, script, script.args)

\* market_main treating any positive number of market inputs as a transition
market_main_many_inputs(t, script) ==
    Let(count_market_cells(t, script, "Input"), LAMBDA input_count :
    Let(count_market_cells(t, script, "Output"), LAMBDA output_count :
        IF output_count # 1 THEN Err(MultipleMarketCells)
        ELSE
    Try(validate_type_id(t, script, input_count), LAMBDA type_id :
    Try(load_market_data(t, script, "Output"), LAMBDA output_data :
        IF input_count = 0 THEN validate_creation(output_data)
        ELSE IF input_count >= 1 THEN
            Try(load_market_data(t, script, "Input"), LAMBDA input_data :
                validate_transition(t, script, input_data, output_data))
        ELSE Err(MultipleMarketCells)))))

\* market_main rejecting only the absence of a market output
market_main_many_outputs(t, script) ==
    Let(count_market_cells(t, script, "Input"), LAMBDA input_count :
    Let(count_market_cells(t, script, "Output"), LAMBDA output_count :
        IF output_count = 0 THEN Err(MultipleMarketCells)
        ELSE
    Try(validate_type_id(t, script, input_count), LAMBDA type_id :
    Try(load_market_data(t, script, "Output"), LAMBDA output_data :
        IF input_count = 0 THEN validate_creation(output_data)
        ELSE IF input_count = 1 THEN
            Try(load_market_data(t, script, "Input"), LAMBDA input_data :
                validate_transition(t, script, input_data, output_data))
        ELSE Err(MultipleMarketCells)))))

\* market_main with a resolution accepted only when has_witness reports a signature
market_main_resolution_needs_witness(t, script) ==
    Let(count_market_cells(t, script, "Input"), LAMBDA input_count :
    Let(count_market_cells(t, script, "Output"), LAMBDA output_count :
        IF output_count # 1 THEN Err(MultipleMarketCells)
        ELSE
    Try(validate_type_id(t, script, input_count), LAMBDA type_id :
    Try(load_market_data(t, script, "Output"), LAMBDA output_data :
        IF input_count = 0 THEN validate_creation(output_data)
        ELSE IF input_count = 1 THEN
            Try(load_market_data(t, script, "Input"), LAMBDA input_data :
                IF ~input_data.resolved /\ output_data.resolved /\ ~has_witness(t, script)
                  THEN Err(InvalidMarketData)
                ELSE validate_transition(t, script, input_data, output_data))
        ELSE Err(MultipleMarketCells)))))

\* main of the market script, for the script group `script` of transaction t
market_main(t, script) ==
    Let(count_market_cells(t, script, "Input"), LAMBDA input_count :
    Let(count_market_cells(t, script, "Output"), LAMBDA output_count :
        IF output_count # 1 THEN Err(MultipleMarketCells)
        ELSE
    Try(validate_type_id(t, script, input_count), LAMBDA type_id :
    Try(load_market_data(t, script, "Output"), LAMBDA output_data :
        IF input_count = 0 THEN validate_creation(output_data)
        ELSE IF input_count = 1 THEN
            Try(load_market_data(t, script, "Input"), LAMBDA input_data :
                validate_transition(t, script, input_data, output_data))
        ELSE Err(MultipleMarketCells)))))

\* program_entry of the market script: 0 or the error code
market_program_entry(t, script) ==
    Let(market_main(t, script), LAMBDA r : IF r.ok THEN 0 ELSE r.err)

(***************************************************************************)
(* The execution environment: which validator runs for which script group. *)
(***************************************************************************)
\* code hashes of the deployed binaries (devnet get_contract_info), as 32-byte blocks
SIGHASH_CODE == <<-1, 1>>
ALWAYS_SUCCESS_CODE == <<-1, 2>>
MARKET_CODE == <<-1, 3>>
TOKEN_CODE == <<-1, 4>>

\* ScriptHashType::Type and ScriptHashType::Data1 as bytes
HASH_TYPE_TYPE == 1
HASH_TYPE_DATA1 == 2

\* the scripts the transaction builder uses
build_market_lock == Script(ALWAYS_SUCCESS_CODE, HASH_TYPE_DATA1, <<>>)
\* the client's market type script carries no args
build_market_type == Script(MARKET_CODE, HASH_TYPE_DATA1, <<>>)
\* the market type script the contract accepts: its args are the 32-byte Type ID
type_id_script(type_id) == Script(MARKET_CODE, HASH_TYPE_DATA1, Bytes32(type_id))
build_token_type(market_script, token_id) ==
    Script(TOKEN_CODE, HASH_TYPE_DATA1,
           Bytes32(calc_script_hash(market_script)) \o <<<<token_id>>>>)

sighash_lock(key) == Script(SIGHASH_CODE, HASH_TYPE_TYPE, <<<<key>>>>)
\* a limit order's lock: always-success with the seller's payment lock hash as args
order_lock(seller_lock) ==
    Script(ALWAYS_SUCCESS_CODE, HASH_TYPE_DATA1, Bytes32(calc_script_hash(seller_lock)))

\* cell payloads
token_data(amount, limit_price) == ToLeBytes(amount, 16) \o ToLeBytes(limit_price, 16)
legacy_token_data(amount) == ToLeBytes(amount, 16)
market_data(token_code_hash, hash_type, resolved, outcome) ==
    MarketData_to_bytes([token_code_hash |-> Bytes32(token_code_hash), hash_type |-> hash_type,
                         resolved |-> resolved, outcome |-> outcome])

\* the type scripts of a transaction: one script group each
TypeScripts(t) ==
    {t.inputs[i].type[1] : i \in {j \in 1..Len(t.inputs) : t.inputs[j].type # None}}
    \cup {t.outputs[i].type[1] : i \in {j \in 1..Len(t.outputs) : t.outputs[j].type # None}}

\* the return code of the script group of type script s on transaction t
RunScript(t, s) ==
    IF s.code_hash = MARKET_CODE /\ s.hash_type = HASH_TYPE_DATA1 THEN market_program_entry(t, s)
    ELSE IF s.code_hash = TOKEN_CODE /\ s.hash_type = HASH_TYPE_DATA1
      THEN token_program_entry(t, s)
    ELSE 0

Verdicts(t) == [s \in TypeScripts(t) |-> RunScript(t, s)]

\* a transaction is committed only if every script group returns 0
Accepted(t) == \A s \in TypeScripts(t) : RunScript(t, s) = 0

SeqsUpTo(S, n) == UNION {[1..k -> S] : k \in 0..n}

NoTx == [inputs |-> <<>>, outputs |-> <<>>]

\* the validators run on the transaction in tx
Verify ==
    /\ ~checked
    /\ checked' = TRUE
    /\ verdict' = Verdicts(tx)
    /\ runs' = runs + 1
    /\ UNCHANGED <<tx, live, ntx, origin, pool, draft>>

(***************************************************************************)
(* The reference market of the single-transaction specifications.          *)
(***************************************************************************)
TxHash(n) == <<-4, n>>
OutPoint(n, index) == [tx_hash |-> TxHash(n), index |-> index]

RefMarket == type_id_script(TypeId(OutPoint(0, 0), <<>>))
RefYes == build_token_type(RefMarket, TOKEN_YES)
RefNo == build_token_type(RefMarket, TOKEN_NO)

Seller1 == sighash_lock(1)
Seller2 == sighash_lock(2)
Buyer == sighash_lock(3)

\* capacity of a token cell and the initial capacity of a market cell, in shannons
TokenCellCapacity == BigMul(N(143), N(100000000))
MarketBaseCapacity == BigMul(N(128), N(100000000))

OrderCell(token, seller, amount, price) ==
    Cell(TokenCellCapacity, order_lock(seller), Some(token), token_data(N(amount), N(price)))

HoldingCell(token, owner, amount) ==
    Cell(TokenCellCapacity, owner, Some(token), token_data(N(amount), <<>>))

PlainCell(owner, capacity) == Cell(capacity, owner, None, <<>>)
MarketCell(script, lock, capacity, resolved, outcome) ==
    Cell(capacity, lock, Some(script),
         market_data(TOKEN_CODE, HASH_TYPE_DATA1, resolved, outcome))

\* the k-th input of a single-transaction specification spends out-point (1, k)
AsInputs(cells) == [k \in 1..Len(cells) |-> Spend(OutPoint(1, k - 1), cells[k])]
(***************************************************************************)
(* SpecToken: single settlement / transfer transactions of the reference   *)
(* market's tokens (no market cell), drawn from bounded sets of cells and  *)
(* run through every script group.                                         *)
(***************************************************************************)
MaxTokenInputs == 2
MaxTokenOutputs == 2
MaxTokenTxCells == 4

\* payments offered to Seller1's lock, in shannons
PayValues == {7, 71, 75, 76, 77}

TokenInputCells ==
    { OrderCell(RefYes, Seller1, 3, 7),
      OrderCell(RefYes, Seller1, 5, 11),
      OrderCell(RefYes, Seller2, 1, 7),
      OrderCell(RefNo, Seller1, 3, 7),
      Cell(TokenCellCapacity, Buyer, Some(RefYes), legacy_token_data(N(3))),
      PlainCell(Seller1, N(100)) }

TokenOutputCells ==
    { PlainCell(Seller1, N(v)) : v \in PayValues }
    \cup { PlainCell(Seller2, N(7)),
           OrderCell(RefYes, Seller1, 2, 7),
           HoldingCell(RefYes, Buyer, 3),
           HoldingCell(RefNo, Buyer, 3) }

TokenTx(ins, outs) == [inputs |-> AsInputs(ins), outputs |-> outs]

InitToken ==
    /\ \E ins \in SeqsUpTo(TokenInputCells, MaxTokenInputs) \ {<<>>} :
       \E outs \in SeqsUpTo(TokenOutputCells, MaxTokenOutputs) :
           /\ Len(ins) + Len(outs) <= MaxTokenTxCells
           /\ tx = TokenTx(ins, outs)
    /\ checked = FALSE
    /\ verdict = <<>>
    /\ live = {}
    /\ ntx = 0
    /\ origin = <<>>
    /\ runs = 0
    /\ pool = NoTx
    /\ draft = NoTx

SpecToken == InitToken /\ [][Verify]_vars

(***************************************************************************)
(* SpecRemainder: fills of Seller1's YES orders in which the outputs hold  *)
(* candidate remainders: order cells of the same seller at the same price, *)
(* at another price, at price 0, with the 16-byte payload, and of another  *)
(* seller.                                                                 *)
(***************************************************************************)
MaxOrderInputs == 2
MaxOrderOutputs == 2

\* payments offered to Seller1's lock, in shannons: 1 x 7, 3 x 7, 3 x 11, 5 x 11
RemainderPayValues == {7, 21, 33, 55}

OrderInputCells ==
    { OrderCell(RefYes, Seller1, 3, 7), OrderCell(RefYes, Seller1, 5, 11) }

RemainderOutputCells ==
    { PlainCell(Seller1, N(v)) : v \in RemainderPayValues }
    \cup { OrderCell(RefYes, Seller1, 2, 7),
           OrderCell(RefYes, Seller1, 2, 11),
           OrderCell(RefYes, Seller1, 2, 0),
           Cell(TokenCellCapacity, order_lock(Seller1), Some(RefYes), legacy_token_data(N(2))),
           OrderCell(RefYes, Seller2, 2, 7) }

InitRemainder ==
    /\ \E ins \in SeqsUpTo(OrderInputCells, MaxOrderInputs) \ {<<>>} :
       \E outs \in SeqsUpTo(RemainderOutputCells, MaxOrderOutputs) :
           tx = TokenTx(ins, outs)
    /\ checked = FALSE
    /\ verdict = <<>>
    /\ live = {}
    /\ ntx = 0
    /\ origin = <<>>
    /\ runs = 0
    /\ pool = NoTx
    /\ draft = NoTx

SpecRemainder == InitRemainder /\ [][Verify]_vars

(***************************************************************************)
(* SpecMarket: single transactions on the reference market cell.  A        *)
(* transaction is given by the input market state, the numbers of YES and  *)
(* NO tokens consumed and produced (one unit cell each), the output        *)
(* capacity, the output market state and one structural variant.           *)
(***************************************************************************)
MaxTokens == 2

\* k * 10_000_000_000 shannons
Sets(k) == BigMul(N(k), SHANNONS_PER_TOKEN)

\* the capacity of the input market cell: room for MaxTokens sets to be taken out
MarketInCapacity == BigAdd(MarketBaseCapacity, Sets(MaxTokens))

\* output capacities: the input capacity moved by -MaxTokens..MaxTokens sets, or by
\* one shannon
MarketOutCapacities ==
    { BigAdd(MarketBaseCapacity, Sets(k)) : k \in 0..(2 * MaxTokens) }
    \cup { BigAdd(MarketInCapacity, N(1)), BigSub(MarketInCapacity, N(1)) }

OtherLock == Script(ALWAYS_SUCCESS_CODE, HASH_TYPE_DATA1, <<<<9>>>>)
OTHER_TOKEN_CODE == <<-1, 5>>

\* "plain": unit token cells held by the buyer; "order": the YES inputs are limit
\* orders of Seller1
TokenVariants == {"plain", "order"}
\* one structural deviation of the market cells each
StructuralVariants == {"lock", "code", "hashtype", "noout", "twoout", "twoin"}

UnitCells(token, owner, n) == [k \in 1..n |-> HoldingCell(token, owner, 1)]
UnitOrders(token, seller, n, price) == [k \in 1..n |-> OrderCell(token, seller, 1, price)]

MarketTx(p) ==
    LET min == Cell(MarketInCapacity, build_market_lock, Some(RefMarket),
                    market_data(TOKEN_CODE, HASH_TYPE_DATA1, p.in_state[1], p.in_state[2]))
        mout == Cell(p.out_capacity,
                     IF p.variant = "lock" THEN OtherLock ELSE build_market_lock,
                     Some(RefMarket),
                     market_data(IF p.variant = "code" THEN OTHER_TOKEN_CODE ELSE TOKEN_CODE,
                                 IF p.variant = "hashtype" THEN HASH_TYPE_TYPE
                                 ELSE HASH_TYPE_DATA1,
                                 p.out_state[1], p.out_state[2]))
        yes_in == IF p.variant = "order" THEN UnitOrders(RefYes, Seller1, p.yes_in, 7)
                  ELSE UnitCells(RefYes, Buyer, p.yes_in)
    IN  [inputs |-> AsInputs((IF p.variant = "twoin" THEN <<min, min>> ELSE <<min>>)
                             \o yes_in \o UnitCells(RefNo, Buyer, p.no_in)),
         outputs |-> (IF p.variant = "noout" THEN <<>>
                      ELSE IF p.variant = "twoout" THEN <<mout, mout>> ELSE <<mout>>)
                     \o UnitCells(RefYes, Buyer, p.yes_out)
                     \o UnitCells(RefNo, Buyer, p.no_out)]

\* every token movement with well-formed market cells, every structural deviation
\* with complete sets of tokens on both sides, and every co-spending of YES orders
MarketParams ==
    { q \in [in_state : BOOLEAN \X BOOLEAN, out_state : BOOLEAN \X BOOLEAN,
             yes_in : 0..MaxTokens, no_in : 0..MaxTokens,
             yes_out : 0..MaxTokens, no_out : 0..MaxTokens,
             out_capacity : MarketOutCapacities,
             variant : TokenVariants \cup StructuralVariants] :
        /\ q.variant \in StructuralVariants => (q.yes_in = q.no_in /\ q.yes_out = q.no_out)
        /\ q.variant = "order" => (q.yes_in > 0 /\ q.no_in = 0 /\ q.no_out = 0) }

InitMarket ==
    /\ \E p \in MarketParams : tx = MarketTx(p)
    /\ checked = FALSE
    /\ verdict = <<>>
    /\ live = {}
    /\ ntx = 0
    /\ origin = <<>>
    /\ runs = 0
    /\ pool = NoTx
    /\ draft = NoTx

SpecMarket == InitMarket /\ [][Verify]_vars
(***************************************************************************)
(* Spec: the ledger.  Transactions are sent against the set of live cells; *)
(* the node takes one into its pool only if every script group accepts it *)
(* and the sender then polls until it is committed.  While it is pooled    *)
(* the ledger is as it was, and a transaction of another client that       *)
(* spends one of the same cells may be committed first, after which the    *)
(* pooled one is never committed.  The transactions sent are the creations *)
(* and the updates of markets, in every combination of the fields the      *)
(* market script reads; the market script rejects the creation the devnet  *)
(* client builds (no args), so the markets of the ledger carry a Type ID.  *)
(* Lock scripts are taken to be satisfied and the capacity balance of a    *)
(* transaction is not checked, so the ledger admits no fewer transactions  *)
(* than the chain.                                                         *)
(***************************************************************************)
MaxTx == 3

\* the funding cell of the devnet account: 1000 CKB
FundingCapacity == BigMul(N(1000), N(100000000))
Genesis == {Spend(OutPoint(0, 0), PlainCell(Buyer, FundingCapacity))}

IsMarketCell(c) ==
    c.type # None /\ c.type[1].code_hash = MARKET_CODE /\ c.type[1].hash_type = HASH_TYPE_DATA1

LiveMarkets == {c \in live : IsMarketCell(c)}
LiveOf(script) == {c \in live : c.type = Some(script)}
LivePlain == {c \in live : c.type = None}

\* the position of an out-point in creation order
Age(c) == c.out_point.tx_hash[2] * 16 + c.out_point.index
\* the oldest n cells of a set, as a sequence (cells of one token differ in
\* nothing but their out-points)
RECURSIVE Oldest(_, _)
Oldest(S, n) ==
    IF n = 0 \/ S = {} THEN <<>>
    ELSE LET c == CHOOSE x \in S : \A y \in S : Age(x) <= Age(y)
         IN  <<c>> \o Oldest(S \ {c}, n - 1)

\* a creation: the funding cell is the first input, the market cell the first
\* output, the change the second
CreateTx(f, args, lock, state, code) ==
    [inputs |-> <<f>>,
     outputs |-> <<Cell(MarketBaseCapacity, lock, Some(Script(MARKET_CODE, HASH_TYPE_DATA1, args)),
                        market_data(code, HASH_TYPE_DATA1, state[1], state[2])),
                   PlainCell(f.lock, BigSub(f.capacity, MarketBaseCapacity))>>]

\* the Type ID of the creation, one computed for the wrong output index, the
\* identities of the markets that already exist and the client's args
CreateArgs(f) ==
    {Bytes32(TypeId(f.out_point, <<>>)), Bytes32(TypeId(f.out_point, N(1)))}
    \cup {m.type[1].args : m \in LiveMarkets} \cup {build_market_type.args}

CreateStates == {<<FALSE, FALSE>>, <<TRUE, FALSE>>, <<TRUE, TRUE>>}

Moves == {"burn", "keep", "mint"}
UpdateVariants == {"plain", "lock", "code", "hashtype", "noout", "twoout"}

UpdateParams ==
    { q \in [yes_in : 0..1, no_in : 0..1, yes_out : 0..1, no_out : 0..1,
             move : Moves, out_state : BOOLEAN \X BOOLEAN, variant : UpdateVariants] :
        q.variant # "plain" => (q.yes_in = q.no_in /\ q.yes_out = q.no_out) }

\* an update of the live market cell m
UpdateTx(m, p) ==
    LET din == MarketData_from_bytes(m.data).val
        yes == build_token_type(m.type[1], TOKEN_YES)
        no == build_token_type(m.type[1], TOKEN_NO)
        mout == Cell(IF p.move = "mint" THEN BigAdd(m.capacity, SHANNONS_PER_TOKEN)
                     ELSE IF p.move = "burn" THEN BigSub(m.capacity, SHANNONS_PER_TOKEN)
                     ELSE m.capacity,
                     IF p.variant # "lock" THEN m.lock
                     ELSE IF m.lock = OtherLock THEN build_market_lock ELSE OtherLock,
                     m.type,
                     MarketData_to_bytes(
                         [token_code_hash |-> IF p.variant = "code" THEN Bytes32(OTHER_TOKEN_CODE)
                                              ELSE din.token_code_hash,
                          hash_type |-> IF p.variant = "hashtype" THEN HASH_TYPE_TYPE
                                        ELSE din.hash_type,
                          resolved |-> p.out_state[1], outcome |-> p.out_state[2]]))
    IN  [inputs |-> <<m>> \o Oldest(LiveOf(yes), p.yes_in) \o Oldest(LiveOf(no), p.no_in),
         outputs |-> (IF p.variant = "noout" THEN <<>>
                      ELSE IF p.variant = "twoout" THEN <<mout, mout>> ELSE <<mout>>)
                     \o UnitCells(yes, Buyer, p.yes_out) \o UnitCells(no, Buyer, p.no_out)]

\* the market scripts a transaction creates cells of, with the first such cell
NewOrigin(t) ==
    LET made == {t.outputs[i].type[1] :
                    i \in {j \in 1..Len(t.outputs) : IsMarketCell(t.outputs[j])}}
    IN  [s \in DOMAIN origin \cup made |->
            IF s \in DOMAIN origin THEN origin[s]
            ELSE t.outputs[Min({i \in 1..Len(t.outputs) : t.outputs[i].type = Some(s)})]]

\* the node commits the accepted transaction t: its inputs die, its outputs go live
Commit(t) ==
    /\ verdict' = Verdicts(t)
    /\ \A s \in DOMAIN verdict' : verdict'[s] = 0
    /\ live' = (live \ {t.inputs[i] : i \in 1..Len(t.inputs)})
                 \cup {Spend(OutPoint(ntx + 1, i - 1), t.outputs[i]) : i \in 1..Len(t.outputs)}
    /\ tx' = t
    /\ checked' = TRUE
    /\ ntx' = ntx + 1
    /\ origin' = NewOrigin(t)
    /\ runs' = 1

\* every cell the transaction spends is live
InputsLive(t) == \A i \in 1..Len(t.inputs) : t.inputs[i] \in live

\* send_transaction, the send: the node takes the transaction into its pool if
\* every script group returns 0 (it answers with an error otherwise); the ledger
\* is as it was and the client starts to poll
Send(t) ==
    /\ pool = NoTx
    /\ draft = NoTx
    /\ InputsLive(t)
    /\ Accepted(t)
    /\ pool' = t
    /\ UNCHANGED <<tx, checked, verdict, live, ntx, origin, runs, draft>>

\* send_transaction, the poll that reports Committed: the pooled transaction has
\* been committed and the call returns
Confirm ==
    /\ pool # NoTx
    /\ InputsLive(pool)
    /\ Commit(pool)
    /\ pool' = NoTx
    /\ UNCHANGED draft

\* a transaction of another client that consumes the cell c and re-creates it
RespendTx(c) == [inputs |-> <<c>>, outputs |-> <<Cell(c.capacity, c.lock, c.type, c.data)>>]

\* the transaction the client is busy with: the one it waits for, or the one it has
\* built and not yet sent
Pending == IF pool # NoTx THEN pool ELSE draft

\* while the client waits on the node (between its read of the ledger and its send,
\* or while it polls), another client's transaction spending one of the same cells
\* is committed: a pooled transaction can no longer be committed and the poll never
\* reports Committed; a transaction not yet sent will spend a dead cell
Intrude ==
    /\ Pending # NoTx
    /\ InputsLive(Pending)
    /\ \E i \in 1..Len(Pending.inputs) : \E t \in {RespendTx(Pending.inputs[i])} :
           Commit(t) /\ UNCHANGED <<pool, draft>>

Init ==
    /\ tx = NoTx
    /\ checked = FALSE
    /\ verdict = <<>>
    /\ live = Genesis
    /\ ntx = 0
    /\ origin = <<>>
    /\ runs = 0
    /\ pool = NoTx
    /\ draft = NoTx

CreateMarket ==
    /\ ntx < MaxTx
    /\ \E f \in LivePlain : \E args \in CreateArgs(f) :
       \E lock \in {build_market_lock, OtherLock} : \E state \in CreateStates :
       \E code \in {TOKEN_CODE, Zero32} :
           /\ ~BigLess(f.capacity, MarketBaseCapacity)
           /\ \E t \in {CreateTx(f, args, lock, state, code)} : Send(t)

UpdateMarket ==
    /\ ntx < MaxTx
    /\ \E m \in LiveMarkets : \E p \in UpdateParams :
       \E t \in {UpdateTx(m, p)} : Send(t)

Next == CreateMarket \/ UpdateMarket \/ Confirm \/ Intrude

Spec == Init /\ [][Next]_vars

(***************************************************************************)
(* SpecCreate: single creations.  The funding cells are consumed in every  *)
(* order, the market cell is the first or the second output, and the args  *)
(* of its script are a Type ID computed from any of the inputs and either  *)
(* output index, no bytes at all, or 33 bytes.                             *)
(***************************************************************************)
MaxCreateInputs == 2

\* the sequences without repetition over a set
InjectiveSeqs(S) ==
    {q \in SeqsUpTo(S, Cardinality(S)) : \A i, j \in 1..Len(q) : q[i] = q[j] => i = j}

FundingInputs ==
    {[k \in 1..Len(q) |-> Spend(OutPoint(1, q[k]), PlainCell(Buyer, FundingCapacity))] :
        q \in InjectiveSeqs(0..(MaxCreateInputs - 1)) \ {<<>>}}

CreationArgs ==
    {Bytes32(TypeId(OutPoint(1, j), N(k))) : j \in 0..(MaxCreateInputs - 1), k \in 0..1}
    \cup {build_market_type.args, Bytes32(TypeId(OutPoint(1, 0), <<>>)) \o <<<<1>>>>}

\* the market cell is output number position (0-based), after the change if any
CreationTx(ins, args, position, state, code) ==
    [inputs |-> ins,
     outputs |-> [k \in 1..position |->
                     PlainCell(Buyer, BigSub(FundingCapacity, MarketBaseCapacity))]
                 \o <<Cell(MarketBaseCapacity, build_market_lock,
                           Some(Script(MARKET_CODE, HASH_TYPE_DATA1, args)),
                           market_data(code, HASH_TYPE_DATA1, state[1], state[2]))>>]

InitCreate ==
    /\ \E ins \in FundingInputs : \E args \in CreationArgs : \E position \in 0..1 :
       \E state \in BOOLEAN \X BOOLEAN : \E code \in {TOKEN_CODE, Zero32} :
           tx = CreationTx(ins, args, position, state, code)
    /\ checked = FALSE
    /\ verdict = <<>>
    /\ live = {}
    /\ ntx = 0
    /\ origin = <<>>
    /\ runs = 0
    /\ pool = NoTx
    /\ draft = NoTx

SpecCreate == InitCreate /\ [][Verify]_vars

(***************************************************************************)
(* SpecEdge: transactions of the reference market's tokens, with or        *)
(* without the market cell co-spent, whose token cells carry amounts and   *)
(* prices at the edge of the 128-bit and 64-bit ranges, a payload of 17    *)
(* bytes, or a type script with an unknown side byte.                      *)
(***************************************************************************)
MaxEdgeCells == 2

\* u128::MAX, 2^64 and 2^63
MaxU128 == [i \in 1..16 |-> 255]
TwoTo64 == [i \in 1..9 |-> IF i = 9 THEN 1 ELSE 0]
TwoTo63 == [i \in 1..8 |-> IF i = 8 THEN 128 ELSE 0]

\* a token type script of the reference market whose side byte is neither YES nor NO
BadSide == build_token_type(RefMarket, 3)

WideCell(token, lock, amount, price) ==
    Cell(TokenCellCapacity, lock, Some(token), token_data(amount, price))

EdgeCells ==
    { HoldingCell(RefYes, Buyer, 1),
      HoldingCell(RefNo, Buyer, 1),
      OrderCell(RefYes, Seller1, 3, 7),
      PlainCell(Seller1, N(100)),
      WideCell(RefYes, Buyer, MaxU128, <<>>),
      WideCell(RefNo, Buyer, MaxU128, <<>>),
      WideCell(RefYes, Buyer, TwoTo64, <<>>),
      WideCell(RefNo, Buyer, TwoTo64, <<>>),
      WideCell(RefYes, order_lock(Seller1), TwoTo64, TwoTo64),
      WideCell(RefYes, order_lock(Seller1), TwoTo64, TwoTo63),
      Cell(TokenCellCapacity, Buyer, Some(RefYes), legacy_token_data(N(1)) \o <<<<0>>>>),
      HoldingCell(BadSide, Buyer, 1) }

\* the market cell is absent, carried through unchanged, or grows by one complete set
EdgeMarkets == {"none", "noop", "mint"}

EdgeMarketIn(m) ==
    IF m = "none" THEN <<>>
    ELSE <<MarketCell(RefMarket, build_market_lock, MarketBaseCapacity, FALSE, FALSE)>>

EdgeMarketOut(m) ==
    IF m = "none" THEN <<>>
    ELSE IF m = "noop"
      THEN <<MarketCell(RefMarket, build_market_lock, MarketBaseCapacity, FALSE, FALSE)>>
    ELSE <<MarketCell(RefMarket, build_market_lock,
                      BigAdd(MarketBaseCapacity, SHANNONS_PER_TOKEN), FALSE, FALSE)>>

EdgeTx(m, ins, outs) ==
    [inputs |-> AsInputs(EdgeMarketIn(m) \o ins), outputs |-> EdgeMarketOut(m) \o outs]

InitEdge ==
    /\ \E m \in EdgeMarkets : \E ins \in SeqsUpTo(EdgeCells, MaxEdgeCells) :
       \E outs \in SeqsUpTo(EdgeCells, MaxEdgeCells - Len(ins)) :
           /\ Len(EdgeMarketIn(m) \o ins) > 0
           /\ tx = EdgeTx(m, ins, outs)
    /\ checked = FALSE
    /\ verdict = <<>>
    /\ live = {}
    /\ ntx = 0
    /\ origin = <<>>
    /\ runs = 0
    /\ pool = NoTx
    /\ draft = NoTx

SpecEdge == InitEdge /\ [][Verify]_vars

(***************************************************************************)
(* SpecSupply: the life of one market on the ledger, from its creation     *)
(* (with or without token cells among the outputs of the creation) through *)
(* mints, burns, a resolution and claims, interleaved with token           *)
(* transactions that do not touch the market cell.  The market is created  *)
(* from the genesis cell, so its script is RefMarket.                      *)
(***************************************************************************)
MaxSteps == 4

\* a creation that also puts token cells of the new market among its outputs
OpenTx(f, yes_out, no_out) ==
    [inputs |-> <<f>>,
     outputs |-> <<Cell(MarketBaseCapacity, build_market_lock,
                        Some(type_id_script(TypeId(f.out_point, <<>>))),
                        market_data(TOKEN_CODE, HASH_TYPE_DATA1, FALSE, FALSE)),
                   PlainCell(f.lock, BigSub(f.capacity, MarketBaseCapacity))>>
                 \o UnitCells(build_token_type(type_id_script(TypeId(f.out_point, <<>>)),
                                               TOKEN_YES), Buyer, yes_out)
                 \o UnitCells(build_token_type(type_id_script(TypeId(f.out_point, <<>>)),
                                               TOKEN_NO), Buyer, no_out)]

\* a transaction of token cells only: n_in live cells of the token are consumed and
\* n_out unit cells are created
TransferTx(token, n_in, n_out) ==
    [inputs |-> Oldest(LiveOf(token), n_in), outputs |-> UnitCells(token, Buyer, n_out)]

SupplyParams ==
    [yes_in : 0..1, no_in : 0..1, yes_out : 0..1, no_out : 0..1,
     move : Moves, out_state : BOOLEAN \X BOOLEAN, variant : {"plain"}]

OpenMarket ==
    /\ ntx < MaxSteps
    /\ LiveMarkets = {}
    /\ \E f \in LivePlain : \E yes_out \in 0..1 : \E no_out \in 0..1 :
       \E t \in {OpenTx(f, yes_out, no_out)} : Send(t)

MoveMarket ==
    /\ ntx < MaxSteps
    /\ \E m \in LiveMarkets : \E p \in SupplyParams :
       \E t \in {UpdateTx(m, p)} : Send(t)

TransferTokens ==
    /\ ntx < MaxSteps
    /\ \E m \in LiveMarkets : \E token_id \in {TOKEN_YES, TOKEN_NO} :
       \E n_in \in 0..1 : \E n_out \in 1..2 :
       \E t \in {TransferTx(build_token_type(m.type[1], token_id), n_in, n_out)} :
           /\ Len(t.inputs) = n_in
           /\ Send(t)

NextSupply == OpenMarket \/ MoveMarket \/ TransferTokens \/ Confirm \/ Intrude

SpecSupply == Init /\ [][NextSupply]_vars

(***************************************************************************)
(* SpecFill: settlements of orders of 3 tokens at price 7: YES orders of   *)
(* Seller1 and of Seller2 and a NO order of Seller1, in any order and      *)
(* number among the inputs; the outputs pay the sellers 7, 21 or 42,        *)
(* re-create Seller1's YES order with 2, 3 or 4 tokens, or hand 3 YES      *)
(* tokens to the buyer.                                                    *)
(***************************************************************************)
MaxFillInputs == 2
MaxFillOutputs == 2
MaxFillTxCells == 4

FillInputCells ==
    { OrderCell(RefYes, Seller1, 3, 7),
      OrderCell(RefYes, Seller2, 3, 7),
      OrderCell(RefNo, Seller1, 3, 7) }

\* payments to Seller1's lock, in shannons: 1 x 7, 3 x 7, 6 x 7
FillPayValues == {7, 21, 42}

FillOutputCells ==
    { PlainCell(Seller1, N(v)) : v \in FillPayValues }
    \cup { PlainCell(Seller2, N(21)),
           OrderCell(RefYes, Seller1, 2, 7),
           OrderCell(RefYes, Seller1, 3, 7),
           OrderCell(RefYes, Seller1, 4, 7),
           HoldingCell(RefYes, Buyer, 3) }

InitFill ==
    /\ \E ins \in SeqsUpTo(FillInputCells, MaxFillInputs) \ {<<>>} :
       \E outs \in SeqsUpTo(FillOutputCells, MaxFillOutputs) :
           /\ Len(ins) + Len(outs) <= MaxFillTxCells
           /\ tx = TokenTx(ins, outs)
    /\ checked = FALSE
    /\ verdict = <<>>
    /\ live = {}
    /\ ntx = 0
    /\ origin = <<>>
    /\ runs = 0
    /\ pool = NoTx
    /\ draft = NoTx

SpecFill == InitFill /\ [][Verify]_vars

(***************************************************************************)
(* SpecGroup: single transactions that fill up to three limit orders of    *)
(* two sellers, in any order among the inputs; the outputs pay Seller1 for *)
(* one or two orders, pay Seller2 for one, or re-create Seller1's order.   *)
(***************************************************************************)
MaxGroupInputs == 3
MaxGroupOutputs == 2

GroupOutputCells ==
    { PlainCell(Seller1, N(21)), PlainCell(Seller1, N(42)), PlainCell(Seller2, N(21)),
      OrderCell(RefYes, Seller1, 3, 7) }

InitGroup ==
    /\ \E ins \in SeqsUpTo(FillInputCells, MaxGroupInputs) \ {<<>>} :
       \E outs \in SeqsUpTo(GroupOutputCells, MaxGroupOutputs) :
           tx = TokenTx(ins, outs)
    /\ checked = FALSE
    /\ verdict = <<>>
    /\ live = {}
    /\ ntx = 0
    /\ origin = <<>>
    /\ runs = 0
    /\ pool = NoTx
    /\ draft = NoTx

SpecGroup == InitGroup /\ [][Verify]_vars

(***************************************************************************)
(* SpecResolve: single updates of the open reference market, submitted     *)
(* with witnesses.  A transaction is given by the outcome field of the     *)
(* input, the state of the output, the tokens of each side passing through *)
(* and the YES tokens produced, the output capacity, the stored hash_type  *)
(* byte, one structural variant, the lock of the fee cell the submitter    *)
(* adds, and the witnesses: none, one without a lock field, one with an    *)
(* empty lock field, one with a signature.                                 *)
(***************************************************************************)
MaxResolveTokens == 1

\* a hash_type byte outside 0, 1, 2, 4
UNKNOWN_HASH_TYPE == 3

SIGNATURE == <<-6, 1>>

ResolveWitnesses ==
    { <<>>, <<[lock |-> None]>>, <<[lock |-> Some(<<>>)]>>, <<[lock |-> Some(<<SIGNATURE>>)]>> }

ResolveTx(p) ==
    [inputs |-> AsInputs(<<Cell(MarketInCapacity, build_market_lock, Some(RefMarket),
                                market_data(TOKEN_CODE, p.mode, FALSE, p.in_outcome))>>
                         \o UnitCells(RefYes, Buyer, p.n)
                         \o UnitCells(RefNo, Buyer, p.n)
                         \o <<PlainCell(p.submitter, FundingCapacity)>>),
     outputs |-> <<Cell(p.capacity,
                        IF p.variant = "lock" THEN OtherLock ELSE build_market_lock,
                        Some(RefMarket),
                        market_data(IF p.variant = "code" THEN OTHER_TOKEN_CODE ELSE TOKEN_CODE,
                                    p.mode, p.out_state[1], p.out_state[2]))>>
                 \o UnitCells(RefYes, Buyer, p.yes_out)
                 \o UnitCells(RefNo, Buyer, p.n)
                 \o <<PlainCell(p.submitter, FundingCapacity)>>,
     witnesses |-> p.witnesses]

ResolveParams ==
    [in_outcome : BOOLEAN, out_state : BOOLEAN \X BOOLEAN,
     n : 0..MaxResolveTokens, yes_out : 0..MaxResolveTokens,
     capacity : {MarketInCapacity, BigAdd(MarketInCapacity, N(1))},
     mode : {HASH_TYPE_DATA1, UNKNOWN_HASH_TYPE},
     variant : {"plain", "lock", "code"},
     submitter : {Buyer, Seller1, Seller2},
     witnesses : ResolveWitnesses]

InitResolve ==
    /\ \E p \in ResolveParams : tx = ResolveTx(p)
    /\ checked = FALSE
    /\ verdict = <<>>
    /\ live = {}
    /\ ntx = 0
    /\ origin = <<>>
    /\ runs = 0
    /\ pool = NoTx
    /\ draft = NoTx

SpecResolve == InitResolve /\ [][Verify]_vars

(***************************************************************************)
(* SpecRerun: what a script's return code can depend on.  A transaction    *)
(* carries, besides its input and output cells, a list of witnesses, which *)
(* a script can load (the market contract imports load_witness_args).  The *)
(* transactions of SpecEdge and the resolutions of SpecResolve start       *)
(* without witnesses; their script groups are run once, and then either    *)
(* one script group is run again on the same transaction, as a node that   *)
(* re-verifies it does, or the script groups are run on the transaction    *)
(* with the same cells and witnesses added.                                *)
(***************************************************************************)
MaxRuns == 2

\* transaction t carrying no witness
Unwitnessed(t) == [inputs |-> t.inputs, outputs |-> t.outputs, witnesses |-> <<>>]

\* the cells of SpecEdge that SpecRerun draws from
RerunCells ==
    { HoldingCell(RefYes, Buyer, 1),
      HoldingCell(RefNo, Buyer, 1),
      OrderCell(RefYes, Seller1, 3, 7),
      PlainCell(Seller1, N(100)),
      WideCell(RefYes, Buyer, MaxU128, <<>>),
      HoldingCell(BadSide, Buyer, 1) }

InitRerun ==
    /\ \/ \E m \in EdgeMarkets : \E ins \in SeqsUpTo(RerunCells, MaxEdgeCells) :
          \E outs \in SeqsUpTo(RerunCells, MaxEdgeCells - Len(ins)) :
              /\ Len(EdgeMarketIn(m) \o ins) > 0
              /\ tx = Unwitnessed(EdgeTx(m, ins, outs))
       \/ \E p \in ResolveParams : p.witnesses = <<>> /\ tx = ResolveTx(p)
    /\ checked = FALSE
    /\ verdict = <<>>
    /\ live = {}
    /\ ntx = 0
    /\ origin = <<>>
    /\ runs = 0
    /\ pool = NoTx
    /\ draft = NoTx

\* one script group of the transaction is run again
Rerun ==
    /\ checked
    /\ runs < MaxRuns
    /\ \E s \in DOMAIN verdict : verdict' = [verdict EXCEPT ![s] = RunScript(tx, s)]
    /\ runs' = runs + 1
    /\ UNCHANGED <<tx, checked, live, ntx, origin, pool, draft>>

\* the script groups are run on the transaction with the same input and output cells
\* and witnesses added
Rewitness ==
    /\ checked
    /\ runs < MaxRuns
    /\ tx.witnesses = <<>>
    /\ \E w \in ResolveWitnesses \ {<<>>} : tx' = [tx EXCEPT !.witnesses = w]
    /\ verdict' = Verdicts(tx')
    /\ runs' = runs + 1
    /\ UNCHANGED <<checked, live, ntx, origin, pool, draft>>

NextRerun == Verify \/ Rerun \/ Rewitness

SpecRerun == InitRerun /\ [][NextRerun]_vars

(***************************************************************************)
(* SpecLife: a market is created with any hash_type byte and either token  *)
(* code, lock and outcome field, and is then consumed and re-created       *)
(* unchanged.  A sent update is run through every script group; it is     *)
(* pooled and then committed if all of them accept and leaves the ledger   *)
(* as it was if one rejects.  The devnet client's own create_market runs   *)
(* as well, in its two steps: it reads the cells of the account and builds *)
(* the transaction, then sends it; another client may spend a cell it read *)
(* in between.                                                             *)
(***************************************************************************)
MaxLifeSteps == 4

\* hash_type bytes of the payload: the four derive_token_type_hash converts and one more
LifeModes == {0, 1, 2, UNKNOWN_HASH_TYPE, 4}

OpenLifeTx(f, lock, mode, outcome, code) ==
    [inputs |-> <<f>>,
     outputs |-> <<Cell(MarketBaseCapacity, lock,
                        Some(type_id_script(TypeId(f.out_point, <<>>))),
                        market_data(code, mode, FALSE, outcome)),
                   PlainCell(f.lock, BigSub(f.capacity, MarketBaseCapacity))>>]

\* the update that re-creates the live market cell m with the same lock, payload and
\* balance and moves no token
NoOpTx(m) == [inputs |-> <<m>>, outputs |-> <<Cell(m.capacity, m.lock, m.type, m.data)>>]

\* the client's MarketData::to_bytes: the two supplies as u128, then the two flags
devnet_MarketData_to_bytes(d) ==
    ToLeBytes(d.yes_supply, 16) \o ToLeBytes(d.no_supply, 16)
    \o <<<<IF d.resolved THEN 1 ELSE 0>>, <<IF d.outcome THEN 1 ELSE 0>>>>

devnet_MarketData_default ==
    [yes_supply |-> <<>>, no_supply |-> <<>>, resolved |-> FALSE, outcome |-> FALSE]

\* the capacity the client gathers for a creation (200 CKB) and the fee it pays
CreateReserve == BigMul(N(200), N(100000000))
CreateFee == 1000

\* the loop of collect_cells: cells are taken in order until the total reaches
\* min_capacity
RECURSIVE collect_from(_, _, _, _)
collect_from(cells, min_capacity, collected, total) ==
    IF cells = <<>> THEN [collected |-> collected, total |-> total]
    ELSE IF ~BigLess(BigAdd(total, Head(cells).capacity), min_capacity)
      THEN [collected |-> Append(collected, Head(cells)),
            total |-> BigAdd(total, Head(cells).capacity)]
    ELSE collect_from(Tail(cells), min_capacity, Append(collected, Head(cells)),
                      BigAdd(total, Head(cells).capacity))

\* the number of cells the client asks the indexer for; it asks once
GetCellsLimit == 100

\* the answer of get_cells: the live cells under the lock that carry no data, oldest
\* first, GetCellsLimit of them at most
get_cells(lock) ==
    Oldest({c \in live : c.lock = lock /\ ByteLen(c.data) < 1}, GetCellsLimit)

\* collect_cells: an error if the cells of the answer do not reach min_capacity
collect_cells(lock, min_capacity) ==
    Let(collect_from(get_cells(lock), min_capacity, <<>>, <<>>),
        LAMBDA r : IF BigLess(r.total, min_capacity) THEN Err(1) ELSE Ok(r.collected))

RECURSIVE total_input(_)
total_input(fee_cells) ==
    IF fee_cells = <<>> THEN <<>>
    ELSE BigAdd(Head(fee_cells).capacity, total_input(Tail(fee_cells)))

\* the transaction create_market builds for the account fee_lock: the market cell
\* has the client's script without args and the client's 34-byte MarketData
create_market(fee_lock) ==
    Try(collect_cells(fee_lock, CreateReserve),
        LAMBDA fee_cells :
            Ok([inputs |-> fee_cells,
                outputs |-> <<Cell(MarketBaseCapacity, build_market_lock,
                                   Some(build_market_type),
                                   devnet_MarketData_to_bytes(devnet_MarketData_default)),
                              Cell(BigSub(BigSub(total_input(fee_cells), MarketBaseCapacity),
                                          N(CreateFee)),
                                   fee_lock, None, <<>>)>>]))

\* the transaction t, whose inputs are live, is sent: taken into the pool if every
\* script group returns 0, refused by the node with the return codes otherwise
Submit(t) ==
    /\ pool = NoTx
    /\ InputsLive(t)
    /\ IF Accepted(t)
         THEN /\ pool' = t
              /\ UNCHANGED <<tx, checked, verdict, live, ntx, origin, runs>>
       ELSE /\ tx' = t
            /\ checked' = TRUE
            /\ verdict' = Verdicts(t)
            /\ ntx' = ntx + 1
            /\ runs' = 1
            /\ UNCHANGED <<live, origin, pool>>

OpenWithMode ==
    /\ ntx < MaxLifeSteps
    /\ LiveMarkets = {}
    /\ \E f \in LivePlain : \E lock \in {build_market_lock, OtherLock} :
       \E mode \in LifeModes : \E outcome \in BOOLEAN :
       \E code \in {TOKEN_CODE, OTHER_TOKEN_CODE} :
           \E t \in {OpenLifeTx(f, lock, mode, outcome, code)} : Send(t)

Touch ==
    /\ ntx < MaxLifeSteps
    /\ draft = NoTx
    /\ \E m \in LiveMarkets : \E t \in {NoOpTx(m)} : Submit(t) /\ UNCHANGED draft

\* create_market up to the send: the client reads the cells of the account that
\* holds the funding cell and builds its transaction from them
ClientBuild ==
    /\ ntx < MaxLifeSteps
    /\ pool = NoTx
    /\ draft = NoTx
    /\ \E r \in {create_market(Buyer)} : r.ok /\ draft' = r.val
    /\ UNCHANGED <<tx, checked, verdict, live, ntx, origin, runs, pool>>

\* create_market, the send: the node answers with an error and runs no script if a
\* cell the transaction spends is no longer live
ClientSend ==
    /\ draft # NoTx
    /\ draft' = NoTx
    /\ IF InputsLive(draft) THEN Submit(draft)
       ELSE UNCHANGED <<tx, checked, verdict, live, ntx, origin, runs, pool>>

NextLife == OpenWithMode \/ Touch \/ ClientBuild \/ ClientSend \/ Confirm \/ Intrude

SpecLife == Init /\ [][NextLife]_vars

(***************************************************************************)
(* SpecParse: transactions of token cells whose type-script args and       *)
(* payloads are at the edges of what the token script decodes: args of 32  *)
(* bytes (no side byte), an unknown side byte, payloads of 15, 16, 17 and  *)
(* 32 bytes, and an amount of u128::MAX; with the market cell absent or    *)
(* carried through unchanged.                                              *)
(***************************************************************************)
MaxParseCells == 3

\* a token type script whose args stop after the 32-byte market hash
ShortArgs == Script(TOKEN_CODE, HASH_TYPE_DATA1, Bytes32(calc_script_hash(RefMarket)))

\* a token cell with a payload of the given bytes
PayloadCell(token, lock, data) == Cell(TokenCellCapacity, lock, Some(token), data)

ParseCells ==
    { PayloadCell(RefYes, order_lock(Seller1), legacy_token_data(N(3))),
      OrderCell(RefYes, Seller1, 3, 7),
      WideCell(RefYes, Buyer, MaxU128, <<>>),
      PayloadCell(RefYes, Buyer, ToLeBytes(N(1), 15)),
      PayloadCell(RefYes, Buyer, ToLeBytes(N(1), 17)),
      HoldingCell(BadSide, Buyer, 1),
      HoldingCell(ShortArgs, Buyer, 1) }

ParseMarkets == {"none", "noop"}

InitParse ==
    /\ \E m \in ParseMarkets : \E ins \in SeqsUpTo(ParseCells, MaxParseCells) :
       \E outs \in SeqsUpTo(ParseCells, MaxParseCells - Len(ins)) :
           /\ Len(EdgeMarketIn(m) \o ins) > 0
           /\ tx = EdgeTx(m, ins, outs)
    /\ checked = FALSE
    /\ verdict = <<>>
    /\ live = {}
    /\ ntx = 0
    /\ origin = <<>>
    /\ runs = 0
    /\ pool = NoTx
    /\ draft = NoTx

SpecParse == InitParse /\ [][Verify]_vars

(***************************************************************************)
(* SpecPayload: creations and updates of the reference market whose market *)
(* cells carry payloads cut or extended to 0 and 32..36 bytes; the market  *)
(* output stands alone, after a change cell (which at creation breaks the  *)
(* Type ID), or twice.                                                     *)
(***************************************************************************)
MaxPayloadLen == 36

PayloadLengths == {0} \cup (32..MaxPayloadLen)

\* the first n bytes of a payload, extended with bytes of 1 beyond its end
Resize(data, n) ==
    IF n <= ByteLen(data) THEN TakeBytes(data, n)
    ELSE data \o [i \in 1..(n - ByteLen(data)) |-> <<1>>]

\* the reference market's cell with a payload of n bytes
PayloadMarketCell(n, state) ==
    Cell(MarketBaseCapacity, build_market_lock, Some(RefMarket),
         Resize(market_data(TOKEN_CODE, HASH_TYPE_DATA1, state[1], state[2]), n))

PayloadShapes == {"single", "shifted", "twin"}

PayloadOutputs(shape, cell) ==
    IF shape = "single" THEN <<cell>>
    ELSE IF shape = "shifted"
      THEN <<PlainCell(Buyer, BigSub(FundingCapacity, MarketBaseCapacity)), cell>>
    ELSE <<cell, cell>>

\* the creation spends the funding cell the reference market's Type ID is derived from
PayloadCreateTx(shape, n, state) ==
    [inputs |-> <<Spend(OutPoint(0, 0), PlainCell(Buyer, FundingCapacity))>>,
     outputs |-> PayloadOutputs(shape, PayloadMarketCell(n, state))]

PayloadUpdateTx(shape, n_in, state_in, n_out, state_out) ==
    [inputs |-> AsInputs(<<PayloadMarketCell(n_in, state_in)>>),
     outputs |-> PayloadOutputs(shape, PayloadMarketCell(n_out, state_out))]

InitPayload ==
    /\ \E shape \in PayloadShapes : \E n_in, n_out \in PayloadLengths :
       \E state_in, state_out \in BOOLEAN \X BOOLEAN :
           \/ tx = PayloadCreateTx(shape, n_out, state_out)
           \/ tx = PayloadUpdateTx(shape, n_in, state_in, n_out, state_out)
    /\ checked = FALSE
    /\ verdict = <<>>
    /\ live = {}
    /\ ntx = 0
    /\ origin = <<>>
    /\ runs = 0
    /\ pool = NoTx
    /\ draft = NoTx

SpecPayload == InitPayload /\ [][Verify]_vars

(***************************************************************************)
(* SpecCodes: transactions that violate the preconditions of the two       *)
(* scripts, one or several at a time.  Updates of the reference market     *)
(* with every token movement and structural deviation, resolutions of a    *)
(* market with a stored hash_type the script cannot convert, creations     *)
(* with right and wrong identifiers, creations and updates with cut        *)
(* payloads, and token transactions, with the market cell absent or        *)
(* carried through unchanged, whose cells have args without a side byte or *)
(* with an unknown one, a payload of 15 bytes, amounts that exceed u128    *)
(* when summed or multiplied, orders with larger remainders, and payments. *)
(***************************************************************************)
MaxCodeTokens == 1
MaxCodeCells == 3

\* the updates of SpecMarket that move at most MaxCodeTokens tokens of a side and
\* the balance by as many sets or by one shannon
CodeCapacities ==
    { BigAdd(MarketBaseCapacity, Sets(k)) :
          k \in (MaxTokens - MaxCodeTokens)..(MaxTokens + MaxCodeTokens) }
    \cup { BigAdd(MarketInCapacity, N(1)), BigSub(MarketInCapacity, N(1)) }

CodeParams ==
    {p \in MarketParams :
        /\ p.yes_in <= MaxCodeTokens /\ p.no_in <= MaxCodeTokens
        /\ p.yes_out <= MaxCodeTokens /\ p.no_out <= MaxCodeTokens
        /\ p.out_capacity \in CodeCapacities}

\* the resolutions of SpecResolve without witnesses
CodeResolutions == {p \in ResolveParams : p.witnesses = <<>> /\ p.n <= MaxCodeTokens}

CodeCells ==
    { OrderCell(RefYes, Seller1, 3, 7),
      OrderCell(RefYes, Seller1, 4, 7),
      PlainCell(Seller1, N(21)),
      WideCell(RefYes, order_lock(Seller1), MaxU128, TwoTo64),
      PayloadCell(RefYes, Buyer, ToLeBytes(N(1), 15)),
      HoldingCell(BadSide, Buyer, 1),
      HoldingCell(ShortArgs, Buyer, 1) }

InitCodes ==
    /\ \/ \E p \in CodeParams : tx = MarketTx(p)
       \/ \E p \in CodeResolutions : tx = ResolveTx(p)
       \/ \E ins \in FundingInputs : \E args \in CreationArgs : \E position \in 0..1 :
          \E state \in BOOLEAN \X BOOLEAN : \E code \in {TOKEN_CODE, Zero32} :
              tx = CreationTx(ins, args, position, state, code)
       \/ \E shape \in PayloadShapes : \E n_in, n_out \in {0, 34, 35} :
          \E state_in, state_out \in BOOLEAN \X BOOLEAN :
              \/ tx = PayloadCreateTx(shape, n_out, state_out)
              \/ tx = PayloadUpdateTx(shape, n_in, state_in, n_out, state_out)
       \/ \E m \in ParseMarkets : \E ins \in SeqsUpTo(CodeCells, MaxCodeCells) :
          \E outs \in SeqsUpTo(CodeCells, MaxCodeCells - Len(ins)) :
              /\ Len(EdgeMarketIn(m) \o ins) > 0
              /\ tx = EdgeTx(m, ins, outs)
    /\ checked = FALSE
    /\ verdict = <<>>
    /\ live = {}
    /\ ntx = 0
    /\ origin = <<>>
    /\ runs = 0
    /\ pool = NoTx
    /\ draft = NoTx

SpecCodes == InitCodes /\ [][Verify]_vars

(***************************************************************************)
(* Quantities the claims speak of, read off the cells of a transaction.    *)
(***************************************************************************)
RECURSIVE BigSum(_, _)
\* the sum of f[i] over i \in S
BigSum(f, S) ==
    IF S = {} THEN <<>>
    ELSE LET i == CHOOSE x \in S : TRUE IN BigAdd(f[i], BigSum(f, S \ {i}))

BigLeq(a, b) == ~BigLess(b, a)

Amount(cell) == FromLeBytes(Slice(cell.data, 0, 16))
Price(cell) == IF ByteLen(cell.data) = 32 THEN FromLeBytes(Slice(cell.data, 16, 32)) ELSE <<>>

\* the indices of the cells of a source that carry the type script
Typed(t, source, script) ==
    {i \in 1..Len(Cells(t, source)) : Cells(t, source)[i].type = Some(script)}

\* the total amount of a token over the cells of a source
TokenTotal(t, source, token) ==
    BigSum([i \in Typed(t, source, token) |-> Amount(Cells(t, source)[i])],
           Typed(t, source, token))

\* the input order cells of a token, and those of one seller key
OrderInputs(t, token) ==
    {i \in Typed(t, "Input", token) : Price(t.inputs[i]) # <<>>}

OrdersOf(t, token, key) == {i \in OrderInputs(t, token) : t.inputs[i].lock.args = key}
SellerKeys(t, token) == {t.inputs[i].lock.args : i \in OrderInputs(t, token)}

\* the plain (type-less) cells of a source whose lock hash is the key
PlainOf(t, source, key) ==
    {i \in 1..Len(Cells(t, source)) :
        /\ Cells(t, source)[i].type = None
        /\ Bytes32(calc_script_hash(Cells(t, source)[i].lock)) = key}

SelfTrade(t, key) == PlainOf(t, "Input", key) # {}

PaidTo(t, key) ==
    BigSum([i \in PlainOf(t, "Output", key) |-> t.outputs[i].capacity], PlainOf(t, "Output", key))

\* the remainder candidates of order input i: same token, lock code, lock args and price
RemainderOutputs(t, token, i) ==
    {k \in Typed(t, "Output", token) :
        /\ t.outputs[k].lock.code_hash = t.inputs[i].lock.code_hash
        /\ t.outputs[k].lock.args = t.inputs[i].lock.args
        /\ Price(t.outputs[k]) = Price(t.inputs[i])}

Remainder(t, token, i) ==
    IF RemainderOutputs(t, token, i) = {} THEN <<>>
    ELSE Amount(t.outputs[Min(RemainderOutputs(t, token, i))])

RemaindersFit(t, token) ==
    \A i \in OrderInputs(t, token) : BigLeq(Remainder(t, token, i), Amount(t.inputs[i]))

\* sum over the seller's orders of (amount - remainder) x limit_price
RequiredFor(t, token, key) ==
    BigSum([i \in OrdersOf(t, token, key) |->
               BigMul(BigSub(Amount(t.inputs[i]), Remainder(t, token, i)), Price(t.inputs[i]))],
           OrdersOf(t, token, key))

MarketInInputs(t, market) == Typed(t, "Input", market) # {}

Ran(script) == checked /\ script \in DOMAIN verdict
AllAccepted == checked /\ \A s \in DOMAIN verdict : verdict[s] = 0

RefTokens == {RefYes, RefNo}

(***************************************************************************)
(* C1.  Limit-order payment is enforced on every fill, whether or not the  *)
(* market cell is among the inputs: in a transaction accepted by every     *)
(* script group, each order's seller (no self-trade) receives plain        *)
(* outputs totalling exactly the sum of sold x limit_price over the        *)
(* seller's orders of that side.                                           *)
(* The code does not enforce it when the market cell is co-spent.          *)
(***************************************************************************)
C1_PaymentOnEveryFill ==
    AllAccepted =>
        \A token \in RefTokens : \A key \in SellerKeys(tx, token) :
            ~SelfTrade(tx, key) => PaidTo(tx, key) = RequiredFor(tx, token, key)

\* the side conserves: out_total <= in_total
Conserved(t, token) == BigLeq(TokenTotal(t, "Output", token), TokenTotal(t, "Input", token))

\* every seller of the side who is not also the payer receives exactly the required sum
ExactlySettled(t, token) ==
    \A key \in SellerKeys(t, token) :
        ~SelfTrade(t, key) => PaidTo(t, key) = RequiredFor(t, token, key)

\* the two orders of one seller at prices 7 and 11 selling 3 and 5 units, filled
\* completely and paid by one combined output to the seller
Seller1Key == Bytes32(calc_script_hash(Seller1))
IsTwoOrderFill(t) ==
    /\ Len(t.inputs) = 2
    /\ {[c EXCEPT !.out_point = <<>>] : c \in {t.inputs[1], t.inputs[2]}}
         = {[c EXCEPT !.out_point = <<>>] :
               c \in {Spend(<<>>, OrderCell(RefYes, Seller1, 3, 7)),
                      Spend(<<>>, OrderCell(RefYes, Seller1, 5, 11))}}
    /\ Len(t.outputs) = 1
    /\ PlainOf(t, "Output", Seller1Key) = {1}

(***************************************************************************)
(* C2 as stated.  Exact cumulative settlement: for a transaction without   *)
(* the market cell in its inputs the token script accepts iff every seller *)
(* key with no self-trade is paid exactly the sum over the seller's orders *)
(* of (amount - remainder) x limit_price, and rejects every other payment  *)
(* with LimitOrderPaymentMismatch; instance: orders at prices 7 and 11     *)
(* selling 3 and 5 units are settled by paying exactly 71.                 *)
(* The code requires 3 x 7 + 5 x 11 = 76 there, and it rejects an exactly  *)
(* paid transaction that inflates the side or whose remainder exceeds its  *)
(* order.                                                                  *)
(***************************************************************************)
C2_SettlementAsStated ==
    /\ \A token \in RefTokens :
        (Ran(token) /\ ~MarketInInputs(tx, RefMarket))
        => /\ verdict[token] = 0 <=> ExactlySettled(tx, token)
           /\ ~ExactlySettled(tx, token) => verdict[token] = LimitOrderPaymentMismatch
    /\ (Ran(RefYes) /\ IsTwoOrderFill(tx)) =>
           (verdict[RefYes] = 0 <=> PaidTo(tx, Seller1Key) = N(71))

(***************************************************************************)
(* C2 amended.  Exact cumulative settlement: for a transaction without the *)
(* market cell in its inputs that conserves the side and whose remainders  *)
(* do not exceed their orders, the token script accepts iff every seller   *)
(* key with no self-trade is paid, in plain outputs locked to the seller,  *)
(* exactly the sum over the seller's orders of (amount - remainder) x      *)
(* limit_price; under- and overpayment return LimitOrderPaymentMismatch.   *)
(* Instance: prices 7 and 11 selling 3 and 5 units require exactly 76.     *)
(***************************************************************************)
C2_ExactCumulativeSettlement ==
    /\ \A token \in RefTokens :
        (/\ Ran(token)
         /\ ~MarketInInputs(tx, RefMarket)
         /\ Conserved(tx, token)
         /\ RemaindersFit(tx, token))
        => /\ verdict[token] = 0 <=> ExactlySettled(tx, token)
           /\ ~ExactlySettled(tx, token) => verdict[token] = LimitOrderPaymentMismatch
    /\ (Ran(RefYes) /\ IsTwoOrderFill(tx)) =>
           (verdict[RefYes] = 0 <=> PaidTo(tx, Seller1Key) = N(76))

\* the two-order fill paid with exactly 76 shannons has been accepted
C2_Witness ==
    /\ Ran(RefYes)
    /\ IsTwoOrderFill(tx)
    /\ PaidTo(tx, Seller1Key) = N(76)
    /\ RequiredFor(tx, RefYes, Seller1Key) = N(76)
    /\ verdict[RefYes] = 0

(***************************************************************************)
(* C3.  Token conservation: a transaction without the market cell in its   *)
(* inputs that the token script accepts has, for the validated side,       *)
(* out_total <= in_total; out_total > in_total returns                     *)
(* UnauthorizedMinting.  YES and NO are judged independently.              *)
(***************************************************************************)
C3_TokenConservation ==
    \A token \in RefTokens :
        (Ran(token) /\ ~MarketInInputs(tx, RefMarket)) =>
            /\ verdict[token] = 0 => Conserved(tx, token)
            /\ ~Conserved(tx, token) => verdict[token] = UnauthorizedMinting

\* one transaction in which the YES side conserves and is accepted while the NO
\* side is inflated and rejected
C3_Witness ==
    /\ Ran(RefYes) /\ Ran(RefNo)
    /\ ~MarketInInputs(tx, RefMarket)
    /\ TokenTotal(tx, "Input", RefYes) # <<>>
    /\ Conserved(tx, RefYes) /\ verdict[RefYes] = 0
    /\ ~Conserved(tx, RefNo) /\ verdict[RefNo] = UnauthorizedMinting

(***************************************************************************)
(* Quantities of a transaction on the reference market.                    *)
(***************************************************************************)
MarketInputs(t) == Typed(t, "Input", RefMarket)
MarketOutputs(t) == Typed(t, "Output", RefMarket)

\* an update: exactly one market input and exactly one market output
IsUpdate(t) == Cardinality(MarketInputs(t)) = 1 /\ Cardinality(MarketOutputs(t)) = 1

MarketInput(t) == t.inputs[Min(MarketInputs(t))]
MarketOutput(t) == t.outputs[Min(MarketOutputs(t))]

PayloadResolved(cell) == ByteAt(cell.data, 33) # 0
PayloadOutcome(cell) == ByteAt(cell.data, 34) # 0

AcceptedUpdate == Ran(RefMarket) /\ verdict[RefMarket] = 0 /\ IsUpdate(tx)

\* 10_000_000_000
TenBillion == BigMul(N(100000), N(100000))

MarketCapacity(t, source) ==
    IF source = "Input" THEN MarketInput(t).capacity ELSE MarketOutput(t).capacity

\* from source a to source b both sides grow by the same d > 0 and the market
\* balance grows by d x 10_000_000_000
MovesCompleteSets(t, a, b) ==
    /\ BigLess(TokenTotal(t, a, RefYes), TokenTotal(t, b, RefYes))
    /\ BigLess(TokenTotal(t, a, RefNo), TokenTotal(t, b, RefNo))
    /\ BigSub(TokenTotal(t, b, RefYes), TokenTotal(t, a, RefYes))
         = BigSub(TokenTotal(t, b, RefNo), TokenTotal(t, a, RefNo))
    /\ BigLess(MarketCapacity(t, a), MarketCapacity(t, b))
    /\ BigSub(MarketCapacity(t, b), MarketCapacity(t, a))
         = BigMul(BigSub(TokenTotal(t, b, RefYes), TokenTotal(t, a, RefYes)), TenBillion)

(***************************************************************************)
(* C4.  Complete-set ratio: every accepted update of an Open market whose  *)
(* balance changes moves delta_yes = delta_no > 0 tokens in the direction  *)
(* of the balance change, and |delta_balance| = delta_yes x                *)
(* 10_000_000_000; every other balance change is rejected.                 *)
(***************************************************************************)
C4_CompleteSetRatio ==
    (/\ AcceptedUpdate
     /\ ~PayloadResolved(MarketInput(tx))
     /\ MarketCapacity(tx, "Input") # MarketCapacity(tx, "Output"))
    => \/ MovesCompleteSets(tx, "Input", "Output")
       \/ MovesCompleteSets(tx, "Output", "Input")

\* a mint of one complete set has been accepted
C4_Witness ==
    /\ AcceptedUpdate
    /\ ~PayloadResolved(MarketInput(tx))
    /\ MovesCompleteSets(tx, "Input", "Output")
    /\ TokenTotal(tx, "Output", RefYes) = N(1)

(***************************************************************************)
(* C5.  Claim exactness: every accepted update of a Resolved market whose  *)
(* balance strictly decreases burns burned > 0 tokens of the winning side, *)
(* leaves the losing side's total unchanged and lowers the balance by      *)
(* exactly burned x 10_000_000_000.                                        *)
(***************************************************************************)
C5_ClaimExactness ==
    (/\ AcceptedUpdate
     /\ PayloadResolved(MarketInput(tx))
     /\ BigLess(MarketCapacity(tx, "Output"), MarketCapacity(tx, "Input")))
    => LET winning == IF PayloadOutcome(MarketInput(tx)) THEN RefYes ELSE RefNo
           losing == IF PayloadOutcome(MarketInput(tx)) THEN RefNo ELSE RefYes
       IN  /\ BigLess(TokenTotal(tx, "Output", winning), TokenTotal(tx, "Input", winning))
           /\ TokenTotal(tx, "Output", losing) = TokenTotal(tx, "Input", losing)
           /\ BigSub(MarketCapacity(tx, "Input"), MarketCapacity(tx, "Output"))
                = BigMul(BigSub(TokenTotal(tx, "Input", winning),
                                TokenTotal(tx, "Output", winning)), TenBillion)

\* a claim of one NO token on a market resolved to NO has been accepted while a
\* YES token passed through
C5_Witness ==
    /\ AcceptedUpdate
    /\ PayloadResolved(MarketInput(tx)) /\ ~PayloadOutcome(MarketInput(tx))
    /\ BigLess(MarketCapacity(tx, "Output"), MarketCapacity(tx, "Input"))
    /\ TokenTotal(tx, "Input", RefNo) = N(1) /\ TokenTotal(tx, "Output", RefNo) = <<>>
    /\ TokenTotal(tx, "Input", RefYes) = N(1)

(***************************************************************************)
(* C9.  Lifecycle singleton: the market script rejects every transaction   *)
(* with two or more market cells among its outputs, none among its         *)
(* outputs, or two or more among its inputs, whatever the other fields.    *)
(***************************************************************************)
C9_LifecycleSingleton ==
    (/\ Ran(RefMarket)
     /\ \/ Cardinality(MarketOutputs(tx)) >= 2
        \/ Cardinality(MarketOutputs(tx)) = 0
        \/ Cardinality(MarketInputs(tx)) >= 2)
    => verdict[RefMarket] # 0

\* two market inputs and one market output, nothing else changed: rejected
C9_Witness ==
    /\ Ran(RefMarket)
    /\ Cardinality(MarketInputs(tx)) = 2
    /\ Cardinality(MarketOutputs(tx)) = 1
    /\ MarketOutput(tx).capacity = MarketInput(tx).capacity
    /\ MarketOutput(tx).data = MarketInput(tx).data
    /\ verdict[RefMarket] = MultipleMarketCells

(***************************************************************************)
(* The ledger claims.  In Spec, tx is the transaction committed last.      *)
(***************************************************************************)
\* the market cells the committed transaction consumed
ConsumedMarkets == {tx.inputs[i] : i \in {j \in 1..Len(tx.inputs) : IsMarketCell(tx.inputs[j])}}

\* the outputs of the committed transaction that carry type script s
ProducedOf(s) == {j \in 1..Len(tx.outputs) : tx.outputs[j].type = Some(s)}

\* the committed transaction is an update of a market: it consumed a market cell
\* and produced exactly one cell of the same script
CommittedUpdate(c) == c \in ConsumedMarkets /\ Cardinality(ProducedOf(c.type[1])) = 1
UpdatedTo(c) == tx.outputs[Min(ProducedOf(c.type[1]))]

\* the payload fields token_code_hash and hash_type (bytes 0..32)
TokenIdentity(cell) == Slice(cell.data, 0, 33)

(***************************************************************************)
(* C6.  Resolution is irreversible: a step of the ledger never takes a     *)
(* live market cell with resolved = true to a live cell of the same        *)
(* market with resolved = false or with another outcome; together with     *)
(* the presence of that cell after the step, a resolved market stays       *)
(* resolved with its outcome across every sequence of accepted             *)
(* transactions.                                                           *)
(***************************************************************************)
C6_ResolutionIrreversible ==
    [][\A c \in live :
          (IsMarketCell(c) /\ PayloadResolved(c))
          => /\ \E d \in live' : d.type = c.type
             /\ \A d \in live' :
                   d.type = c.type
                   => PayloadResolved(d) /\ PayloadOutcome(d) = PayloadOutcome(c)]_vars

\* a resolved market cell was consumed by a committed transaction
C6_Witness ==
    /\ ntx > 0
    /\ \E c \in ConsumedMarkets :
          /\ PayloadResolved(c)
          /\ CommittedUpdate(c)
          /\ PayloadResolved(UpdatedTo(c))

(***************************************************************************)
(* C7.  The lock is preserved: every committed update has the output       *)
(* market cell's lock equal to the input market cell's lock; every live    *)
(* market cell carries the lock its market was created with; and an        *)
(* update of a live market cell (one market input, one market output,      *)
(* decodable payloads) that changes the lock is rejected by the market     *)
(* script with LockScriptChanged, whatever else it changes.                *)
(***************************************************************************)
C7_LockPreserved ==
    /\ \A c \in LiveMarkets :
          c.type[1] \in DOMAIN origin /\ c.lock = origin[c.type[1]].lock
    /\ ntx > 0 => \A c \in ConsumedMarkets :
                     CommittedUpdate(c) => UpdatedTo(c).lock = c.lock
    /\ \A m \in LiveMarkets : \A p \in UpdateParams :
          p.variant = "lock"
          => market_program_entry(UpdateTx(m, p), m.type[1]) = LockScriptChanged

\* a market created with the other lock has been updated and still carries it
C7_Witness ==
    /\ ntx > 1
    /\ \E c \in ConsumedMarkets :
          /\ CommittedUpdate(c)
          /\ c.lock = OtherLock
          /\ origin[c.type[1]].lock = OtherLock
          /\ UpdatedTo(c).lock = OtherLock

(***************************************************************************)
(* C8.  The token identity fields are immutable: every committed update    *)
(* has the output payload's token_code_hash and hash_type equal to the     *)
(* input payload's, every live market cell carries the two fields its      *)
(* market was created with, and the YES and NO token type hashes derived   *)
(* from the live cell are those derived from the created cell.             *)
(***************************************************************************)
C8_TokenIdentityImmutable ==
    /\ ntx > 0 => \A c \in ConsumedMarkets :
                     CommittedUpdate(c) => TokenIdentity(UpdatedTo(c)) = TokenIdentity(c)
    /\ \A c \in LiveMarkets :
          /\ TokenIdentity(c) = TokenIdentity(origin[c.type[1]])
          /\ \A token_id \in {TOKEN_YES, TOKEN_NO} :
                derive_token_type_hash(MarketData_from_bytes(c.data).val.token_code_hash,
                                       MarketData_from_bytes(c.data).val.hash_type,
                                       calc_script_hash(c.type[1]), token_id)
                = derive_token_type_hash(
                      MarketData_from_bytes(origin[c.type[1]].data).val.token_code_hash,
                      MarketData_from_bytes(origin[c.type[1]].data).val.hash_type,
                      calc_script_hash(c.type[1]), token_id)

\* a mint has been committed on a market: its tokens are live
C8_Witness ==
    /\ ntx > 1
    /\ \E c \in ConsumedMarkets :
          /\ CommittedUpdate(c)
          /\ BigLess(c.capacity, UpdatedTo(c).capacity)
          /\ LiveOf(build_token_type(c.type[1], TOKEN_YES)) # {}
          /\ LiveOf(build_token_type(c.type[1], TOKEN_NO)) # {}

(***************************************************************************)
(* C10.  The market cell is never destroyed or duplicated: every committed *)
(* transaction that consumes a market cell produces exactly one cell of    *)
(* the same market script, and every market created so far has exactly     *)
(* one live cell.                                                          *)
(***************************************************************************)
C10_NeverDestroyedOrDuplicated ==
    /\ ntx > 0 => \A c \in ConsumedMarkets : Cardinality(ProducedOf(c.type[1])) = 1
    /\ \A s \in DOMAIN origin : Cardinality(LiveOf(s)) = 1

\* two markets exist and one of them has just been updated
C10_Witness ==
    /\ Cardinality(DOMAIN origin) = 2
    /\ \E c \in ConsumedMarkets : CommittedUpdate(c)

(***************************************************************************)
(* Quantities of a fill of one seller's orders.                            *)
(***************************************************************************)
\* the outputs of the token with the lock code and lock args of order input i
SameLockOutputs(t, token, i) ==
    {k \in Typed(t, "Output", token) :
        /\ t.outputs[k].lock.code_hash = t.inputs[i].lock.code_hash
        /\ t.outputs[k].lock.args = t.inputs[i].lock.args}

\* sum over the seller's orders of amount x limit_price
FullPriceFor(t, token, key) ==
    BigSum([i \in OrdersOf(t, token, key) |-> BigMul(Amount(t.inputs[i]), Price(t.inputs[i]))],
           OrdersOf(t, token, key))

\* no order of the token has an output of its lock at its price
NoSamePriceOutput(t, token) ==
    \A i \in OrderInputs(t, token) :
        \A k \in SameLockOutputs(t, token, i) : Price(t.outputs[k]) # Price(t.inputs[i])

(***************************************************************************)
(* C11.  No silent price change: an output token cell with the lock code   *)
(* and lock args of an order but another limit_price (0 and the 16-byte    *)
(* payload included) is not its remainder.  When no order of the side has  *)
(* a same-price output, every order counts as fully sold: the token        *)
(* script accepts a conserving transaction without the market cell and     *)
(* without self-trade iff every seller is paid exactly the sum of          *)
(* amount x limit_price over the seller's orders, and returns              *)
(* LimitOrderPaymentMismatch otherwise.                                    *)
(***************************************************************************)
C11_NoSilentPriceChange ==
    \A token \in RefTokens :
        (/\ Ran(token)
         /\ ~MarketInInputs(tx, RefMarket)
         /\ Conserved(tx, token)
         /\ NoSamePriceOutput(tx, token))
        => \A key \in SellerKeys(tx, token) :
              /\ RequiredFor(tx, token, key) = FullPriceFor(tx, token, key)
              /\ (~SelfTrade(tx, key) /\ PaidTo(tx, key) # FullPriceFor(tx, token, key))
                 => verdict[token] = LimitOrderPaymentMismatch
              /\ (\A other \in SellerKeys(tx, token) :
                     PaidTo(tx, other) = FullPriceFor(tx, token, other))
                 => verdict[token] = 0

\* the order of 3 at price 7 is spent, an output of 2 with the order's lock and the
\* 16-byte payload or price 0 is produced, and the seller is paid 3 x 7: accepted
C11_Witness ==
    /\ Ran(RefYes)
    /\ Len(tx.inputs) = 1
    /\ Amount(tx.inputs[1]) = N(3) /\ Price(tx.inputs[1]) = N(7)
    /\ \E k \in SameLockOutputs(tx, RefYes, 1) :
          Price(tx.outputs[k]) = <<>> /\ Amount(tx.outputs[k]) = N(2)
    /\ NoSamePriceOutput(tx, RefYes)
    /\ PaidTo(tx, Seller1Key) = N(21)
    /\ verdict[RefYes] = 0

(***************************************************************************)
(* C12.  Self-trade exemption: when every seller key of the side has a     *)
(* plain input cell whose lock hash is the key, the token script accepts   *)
(* a transaction without the market cell that conserves the side and       *)
(* whose remainders do not exceed their orders, whatever the seller is     *)
(* paid, nothing included (amounts within 128 bits).                       *)
(***************************************************************************)
C12_SelfTradeExemption ==
    \A token \in RefTokens :
        (/\ Ran(token)
         /\ ~MarketInInputs(tx, RefMarket)
         /\ Conserved(tx, token)
         /\ RemaindersFit(tx, token)
         /\ SellerKeys(tx, token) # {}
         /\ \A key \in SellerKeys(tx, token) : SelfTrade(tx, key))
        => verdict[token] = 0

\* Seller1's order of 3 at price 7 is spent together with a plain cell of Seller1,
\* the tokens leave the order, Seller1 receives nothing: accepted
C12_Witness ==
    /\ Ran(RefYes)
    /\ SellerKeys(tx, RefYes) = {Seller1Key}
    /\ SelfTrade(tx, Seller1Key)
    /\ RequiredFor(tx, RefYes, Seller1Key) = N(21)
    /\ PaidTo(tx, Seller1Key) = <<>>
    /\ TokenTotal(tx, "Output", RefYes) = N(3)
    /\ verdict[RefYes] = 0

(***************************************************************************)
(* Quantities of a creation.                                               *)
(***************************************************************************)
\* the market scripts among the type scripts of a transaction
MarketScripts(t) ==
    {s \in TypeScripts(t) : s.code_hash = MARKET_CODE /\ s.hash_type = HASH_TYPE_DATA1}

\* a creation of market script s: no input and exactly one output of s
IsCreation(t, s) ==
    Typed(t, "Input", s) = {} /\ Cardinality(Typed(t, "Output", s)) = 1

CreatedCell(t, s) == t.outputs[Min(Typed(t, "Output", s))]

\* hash(out-point of the first input || 8-byte little-endian index of the market output)
ExpectedIdentifier(t, s) ==
    Bytes32(calc_data_hash(Bytes32(t.inputs[1].out_point.tx_hash)
                           \o ToLeBytes(N(t.inputs[1].out_point.index), 4)
                           \o ToLeBytes(N(Min(Typed(t, "Output", s)) - 1), 8)))

ZeroTokenHash(cell) == Slice(cell.data, 0, 32) = Bytes32(Zero32)

(***************************************************************************)
(* C13.  Creation preconditions: a transaction with no input and exactly   *)
(* one output of a market script is accepted by the market script iff the  *)
(* output payload has resolved = false and a token_code_hash that is not   *)
(* all zero and the script's args are exactly the 32 bytes of              *)
(* hash(out-point of the first input || 8-byte little-endian index of the  *)
(* market output); any other identifier returns InvalidTypeId, and with    *)
(* the right identifier resolved = true or a zero token hash returns       *)
(* InvalidMarketData.                                                      *)
(***************************************************************************)
C13_CreationPreconditions ==
    \A s \in MarketScripts(tx) :
        (Ran(s) /\ IsCreation(tx, s))
        => /\ verdict[s] = 0 <=> /\ s.args = ExpectedIdentifier(tx, s)
                                 /\ ByteLen(s.args) = 32
                                 /\ ~PayloadResolved(CreatedCell(tx, s))
                                 /\ ~ZeroTokenHash(CreatedCell(tx, s))
           /\ s.args # ExpectedIdentifier(tx, s) => verdict[s] = InvalidTypeId
           /\ (/\ s.args = ExpectedIdentifier(tx, s)
               /\ PayloadResolved(CreatedCell(tx, s)) \/ ZeroTokenHash(CreatedCell(tx, s)))
              => verdict[s] = InvalidMarketData

\* a market is created as the second output of a transaction with two inputs, its
\* identifier computed from the first input and index 1: accepted
C13_Witness ==
    \E s \in MarketScripts(tx) :
        /\ Ran(s) /\ IsCreation(tx, s)
        /\ Len(tx.inputs) = 2
        /\ Min(Typed(tx, "Output", s)) = 2
        /\ s.args = ExpectedIdentifier(tx, s)
        /\ verdict[s] = 0

(***************************************************************************)
(* Quantities of an update of the reference market.                        *)
(***************************************************************************)
TotalsUnchanged(t) ==
    /\ TokenTotal(t, "Output", RefYes) = TokenTotal(t, "Input", RefYes)
    /\ TokenTotal(t, "Output", RefNo) = TokenTotal(t, "Input", RefNo)

BalanceUnchanged(t) == MarketCapacity(t, "Output") = MarketCapacity(t, "Input")

\* the Claim rules: burned > 0 tokens of the winning side, the losing side unchanged,
\* the balance lowered by burned x 10_000_000_000
ClaimOf(t, winning, losing) ==
    /\ BigLess(TokenTotal(t, "Output", winning), TokenTotal(t, "Input", winning))
    /\ TokenTotal(t, "Output", losing) = TokenTotal(t, "Input", losing)
    /\ BigLess(MarketCapacity(t, "Output"), MarketCapacity(t, "Input"))
    /\ BigSub(MarketCapacity(t, "Input"), MarketCapacity(t, "Output"))
         = BigMul(BigSub(TokenTotal(t, "Input", winning), TokenTotal(t, "Output", winning)),
                  TenBillion)

IsClaim(t) ==
    IF PayloadOutcome(MarketInput(t)) THEN ClaimOf(t, RefYes, RefNo)
    ELSE ClaimOf(t, RefNo, RefYes)

(***************************************************************************)
(* C14.  Resolution is a pure metadata flip: every accepted update that    *)
(* takes the market from resolved = false to resolved = true leaves the    *)
(* YES total, the NO total and the market balance unchanged, so no         *)
(* accepted transaction both resolves the market and mints or burns.       *)
(***************************************************************************)
C14_ResolutionPureFlip ==
    (/\ AcceptedUpdate
     /\ ~PayloadResolved(MarketInput(tx))
     /\ PayloadResolved(MarketOutput(tx)))
    => TotalsUnchanged(tx) /\ BalanceUnchanged(tx)

\* a market holding collateral is resolved to YES while one YES and one NO token
\* pass through the transaction: accepted
C14_Witness ==
    /\ AcceptedUpdate
    /\ ~PayloadResolved(MarketInput(tx))
    /\ PayloadResolved(MarketOutput(tx)) /\ PayloadOutcome(MarketOutput(tx))
    /\ TokenTotal(tx, "Input", RefYes) = N(1) /\ TokenTotal(tx, "Input", RefNo) = N(1)
    /\ TotalsUnchanged(tx)

(***************************************************************************)
(* C15.  On a Resolved market only Claim and NoOp are legal: an accepted   *)
(* update whose input is resolved has an output that is resolved with the  *)
(* same outcome, and either the balance strictly decreases under the Claim *)
(* rules or the balance and both token totals are unchanged; an update     *)
(* that raises the balance of a resolved market is rejected.               *)
(***************************************************************************)
C15_ResolvedOnlyClaimOrNoOp ==
    /\ (AcceptedUpdate /\ PayloadResolved(MarketInput(tx)))
       => /\ PayloadResolved(MarketOutput(tx))
          /\ PayloadOutcome(MarketOutput(tx)) = PayloadOutcome(MarketInput(tx))
          /\ \/ IsClaim(tx)
             \/ BalanceUnchanged(tx) /\ TotalsUnchanged(tx)
    /\ (/\ Ran(RefMarket) /\ IsUpdate(tx)
        /\ PayloadResolved(MarketInput(tx))
        /\ BigLess(MarketCapacity(tx, "Input"), MarketCapacity(tx, "Output")))
       => verdict[RefMarket] # 0

\* a resolved market is consumed and recreated with the same balance and state while
\* a NO token passes through: accepted
C15_Witness ==
    /\ AcceptedUpdate
    /\ PayloadResolved(MarketInput(tx))
    /\ BalanceUnchanged(tx)
    /\ TokenTotal(tx, "Input", RefNo) = N(1)
    /\ TotalsUnchanged(tx)

(***************************************************************************)
(* C16.  NoOp on an Open market: an accepted update of an open market      *)
(* whose output balance equals its input balance has the YES total and     *)
(* the NO total of the outputs equal to those of the inputs; a change of   *)
(* either total without a balance change is rejected.                      *)
(***************************************************************************)
C16_OpenNoOp ==
    (/\ Ran(RefMarket) /\ IsUpdate(tx)
     /\ ~PayloadResolved(MarketInput(tx))
     /\ BalanceUnchanged(tx))
    => /\ verdict[RefMarket] = 0 => TotalsUnchanged(tx)
       /\ ~TotalsUnchanged(tx) => verdict[RefMarket] # 0

\* an open market is consumed and recreated open with the same balance while two YES
\* tokens pass through: accepted
C16_Witness ==
    /\ AcceptedUpdate
    /\ ~PayloadResolved(MarketInput(tx)) /\ ~PayloadResolved(MarketOutput(tx))
    /\ BalanceUnchanged(tx)
    /\ TokenTotal(tx, "Input", RefYes) = N(2)
    /\ TotalsUnchanged(tx)

(***************************************************************************)
(* Quantities of the delegation of the token script to the market script.  *)
(***************************************************************************)
\* the script groups of a transaction that run the token script
TokenScripts(t) ==
    {s \in TypeScripts(t) : s.code_hash = TOKEN_CODE /\ s.hash_type = HASH_TYPE_DATA1}

\* an input cell's type hash equals the market hash in the token script's args
DelegatedTo(t, s) ==
    /\ ByteLen(s.args) >= 32
    /\ \E i \in 1..Len(t.inputs) :
        /\ t.inputs[i].type # None
        /\ Bytes32(calc_script_hash(t.inputs[i].type[1])) = Slice(s.args, 0, 32)

\* the args carry a side byte of YES or NO
SideDecodes(s) == ByteLen(s.args) >= 33 /\ ByteAt(s.args, 32) \in {TOKEN_YES, TOKEN_NO}

\* every cell of the side has a payload of 16 or 32 bytes
PayloadsDecode(t, s) ==
    \A source \in {"Input", "Output"} : \A i \in Typed(t, source, s) :
        ByteLen(Cells(t, source)[i].data) \in {16, 32}

\* the side's input total and output total fit 128 bits
TotalsFit(t, s) ==
    FitsU128(TokenTotal(t, "Input", s)) /\ FitsU128(TokenTotal(t, "Output", s))

(***************************************************************************)
(* C17 as stated.  Delegation to the market script: when a cell whose type *)
(* hash equals the market hash in the token script's args is among the     *)
(* inputs, the token script accepts the transaction unconditionally,       *)
(* whatever the token cells' payloads, the input and output totals and the *)
(* limit orders are.                                                       *)
(* The code decodes its args and sums both sides before it looks for the   *)
(* market cell: an unknown side byte, a payload of 17 bytes or a side      *)
(* total beyond 128 bits is rejected with the market cell co-spent.        *)
(***************************************************************************)
C17_DelegationAsStated ==
    \A s \in TokenScripts(tx) : (Ran(s) /\ DelegatedTo(tx, s)) => verdict[s] = 0

(***************************************************************************)
(* C17 amended.  Delegation to the market script: when a cell whose type   *)
(* hash equals the market hash in the token script's args is among the     *)
(* inputs, the args carry a YES or NO side byte, every token cell of the   *)
(* side has a payload of 16 or 32 bytes and each side total fits 128 bits, *)
(* the token script accepts the transaction, whatever the input and output *)
(* totals and the limit orders are.                                        *)
(***************************************************************************)
C17_Delegation ==
    \A s \in TokenScripts(tx) :
        (/\ Ran(s) /\ DelegatedTo(tx, s)
         /\ SideDecodes(s) /\ PayloadsDecode(tx, s) /\ TotalsFit(tx, s))
        => verdict[s] = 0

\* with the market cell co-spent, an order of 3 YES at price 7 is consumed without a
\* payment while more YES leave than entered: the YES script accepts
C17_Witness ==
    /\ Ran(RefYes) /\ DelegatedTo(tx, RefYes)
    /\ verdict[RefYes] = 0
    /\ ~Conserved(tx, RefYes)
    /\ SellerKeys(tx, RefYes) # {}
    /\ ~ExactlySettled(tx, RefYes)

(***************************************************************************)
(* Quantities of the arithmetic, computed without a bound on their size.   *)
(***************************************************************************)
AbsDiff(a, b) == IF BigLess(a, b) THEN BigSub(b, a) ELSE BigSub(a, b)

\* sold x limit_price of some order of the side exceeds 128 bits
ProductOverflows(t, token) ==
    \E i \in OrderInputs(t, token) :
        /\ BigLeq(Remainder(t, token, i), Amount(t.inputs[i]))
        /\ ~FitsU128(BigMul(BigSub(Amount(t.inputs[i]), Remainder(t, token, i)),
                            Price(t.inputs[i])))

\* the required sum of some seller of the side exceeds 128 bits
SumOverflows(t, token) ==
    RemaindersFit(t, token) /\ \E key \in SellerKeys(t, token) : ~FitsU128(RequiredFor(t, token, key))

\* delta_tokens x 10_000_000_000 of some side exceeds 64 bits
DeltaOverflows(t) ==
    \E token \in RefTokens :
        ~FitsU64(BigMul(AbsDiff(TokenTotal(t, "Input", token), TokenTotal(t, "Output", token)),
                        TenBillion))

(***************************************************************************)
(* Quantities of the return codes.                                         *)
(***************************************************************************)
\* the discriminants of the two Error enumerations
MarketCodes ==
    {IndexOutOfBound, ItemMissing, LengthNotEnough, Encoding, InvalidMarketData,
     MultipleMarketCells, SupplyDecrease, UnequalSupplyIncrease, InsufficientCollateral,
     LockScriptChanged, InvalidTypeId, TypeIdMismatch}

TokenCodes ==
    {IndexOutOfBound, ItemMissing, LengthNotEnough, Encoding, InvalidTokenId,
     UnauthorizedMinting, InvalidDataLength, LimitOrderPaymentMismatch,
     LimitOrderInvalidAmount}

CodesOf(s) == IF s.code_hash = MARKET_CODE THEN MarketCodes ELSE TokenCodes

(***************************************************************************)
(* The preconditions of the market script.                                 *)
(***************************************************************************)
MarketPreconditions ==
    {"single", "identifier", "data", "created_open", "token_code", "lock", "identity",
     "mode", "token_payload", "token_total", "reopen", "outcome", "movement"}

\* the codes that the violation of a precondition of the market script returns
MarketClass(name) ==
    IF name = "single" THEN {MultipleMarketCells}
    ELSE IF name = "identifier" THEN {InvalidTypeId}
    ELSE IF name \in {"data", "token_payload"} THEN {LengthNotEnough}
    ELSE IF name = "lock" THEN {LockScriptChanged}
    ELSE IF name \in {"mode", "token_total"} THEN {Encoding}
    ELSE IF name = "movement"
      THEN {SupplyDecrease, UnequalSupplyIncrease, InsufficientCollateral, InvalidMarketData,
            Encoding}
    ELSE {InvalidMarketData}

\* the payload of a market cell holds the 35 bytes of MarketData
DataDecodes(cell) == ByteLen(cell.data) >= 35

\* the preconditions a creation of market script s violates
CreationBroken(t, s) ==
    {name \in MarketPreconditions :
        \/ name = "identifier" /\ s.args # ExpectedIdentifier(t, s)
        \/ name = "data" /\ ~DataDecodes(CreatedCell(t, s))
        \/ name = "created_open"
             /\ DataDecodes(CreatedCell(t, s)) /\ PayloadResolved(CreatedCell(t, s))
        \/ name = "token_code"
             /\ DataDecodes(CreatedCell(t, s)) /\ ZeroTokenHash(CreatedCell(t, s))}

\* the cells of the market's two tokens in both sources
TokenCellsOf(t) ==
    UNION {{Cells(t, source)[i] : i \in Typed(t, source, token)} :
              source \in {"Input", "Output"}, token \in RefTokens}

\* the total of a token over the cells of a source that hold 16 bytes of amount
CountedTotal(t, source, token) ==
    BigSum([i \in Typed(t, source, token) |-> Amount(Cells(t, source)[i])],
           {i \in Typed(t, source, token) : ByteLen(Cells(t, source)[i].data) >= 16})

TotalsCounted(t) ==
    \A source \in {"Input", "Output"} : \A token \in RefTokens :
        FitsU128(CountedTotal(t, source, token))

\* the market script can count the tokens: the stored hash_type is one that
\* derive_token_type_hash converts, every token cell holds 16 bytes of amount and
\* no total exceeds 128 bits
TokensCountable(t) ==
    /\ ByteAt(MarketInput(t).data, 32) \in {0, 1, 2, 4}
    /\ \A cell \in TokenCellsOf(t) : ByteLen(cell.data) >= 16
    /\ TotalsCounted(t)

\* the movement of tokens and balance is one the state of the market permits: on a
\* resolved market a claim or nothing, with a resolution nothing, on an open market
\* complete sets in or out or nothing
Permitted(t) ==
    IF PayloadResolved(MarketInput(t))
      THEN IsClaim(t) \/ (BalanceUnchanged(t) /\ TotalsUnchanged(t))
    ELSE IF PayloadResolved(MarketOutput(t))
      THEN BalanceUnchanged(t) /\ TotalsUnchanged(t)
    ELSE \/ BalanceUnchanged(t) /\ TotalsUnchanged(t)
         \/ MovesCompleteSets(t, "Input", "Output")
         \/ MovesCompleteSets(t, "Output", "Input")

\* the preconditions an update of the reference market violates whose two market
\* payloads decode
DecodedUpdateBroken(t) ==
    {name \in MarketPreconditions :
        \/ name = "lock" /\ MarketOutput(t).lock # MarketInput(t).lock
        \/ name = "identity" /\ TokenIdentity(MarketOutput(t)) # TokenIdentity(MarketInput(t))
        \/ name = "mode" /\ ByteAt(MarketInput(t).data, 32) \notin {0, 1, 2, 4}
        \/ name = "token_payload" /\ \E cell \in TokenCellsOf(t) : ByteLen(cell.data) < 16
        \/ name = "token_total" /\ ~TotalsCounted(t)
        \/ name = "reopen"
             /\ PayloadResolved(MarketInput(t)) /\ ~PayloadResolved(MarketOutput(t))
        \/ name = "outcome"
             /\ PayloadOutcome(MarketOutput(t)) # PayloadOutcome(MarketInput(t))
             /\ ~(~PayloadResolved(MarketInput(t)) /\ PayloadResolved(MarketOutput(t)))
        \/ name = "movement" /\ TokensCountable(t) /\ ~Permitted(t)}

UpdateBroken(t) ==
    IF DataDecodes(MarketInput(t)) /\ DataDecodes(MarketOutput(t)) THEN DecodedUpdateBroken(t)
    ELSE {"data"}

\* the preconditions of the market script that transaction t violates for script s
MarketBroken(t, s) ==
    IF IsCreation(t, s) THEN CreationBroken(t, s)
    ELSE IF s = RefMarket /\ IsUpdate(t) THEN UpdateBroken(t)
    ELSE {"single"}

(***************************************************************************)
(* The preconditions of the token script.                                  *)
(***************************************************************************)
TokenPreconditions ==
    {"args", "payload", "total", "conservation", "remainder", "payment_fits", "payment"}

\* the codes that the violation of a precondition of the token script returns
TokenClass(name) ==
    IF name = "args" THEN {LengthNotEnough, InvalidTokenId}
    ELSE IF name = "payload" THEN {InvalidDataLength}
    ELSE IF name \in {"total", "payment_fits"} THEN {Encoding}
    ELSE IF name = "conservation" THEN {UnauthorizedMinting}
    ELSE IF name = "remainder" THEN {LimitOrderInvalidAmount}
    ELSE {LimitOrderPaymentMismatch}

\* the cells of the side in a source whose payload decodes, and their total
Decoded(t, source, s) ==
    {i \in Typed(t, source, s) : ByteLen(Cells(t, source)[i].data) \in {16, 32}}

DecodedTotal(t, source, s) ==
    BigSum([i \in Decoded(t, source, s) |-> Amount(Cells(t, source)[i])], Decoded(t, source, s))

\* no remainder of the seller's orders exceeds its order
KeyFits(t, s, key) ==
    \A i \in OrdersOf(t, s, key) : BigLeq(Remainder(t, s, i), Amount(t.inputs[i]))

\* sold x limit_price of each of the seller's orders and their sum fit 128 bits
KeyPaymentFits(t, s, key) ==
    /\ \A i \in OrdersOf(t, s, key) :
           FitsU128(BigMul(BigSub(Amount(t.inputs[i]), Remainder(t, s, i)), Price(t.inputs[i])))
    /\ FitsU128(RequiredFor(t, s, key))

\* the preconditions of the two sums
SumsBroken(t, s) ==
    {name \in TokenPreconditions :
        \/ name = "payload" /\ ~PayloadsDecode(t, s)
        \/ name = "total"
             /\ \E source \in {"Input", "Output"} : ~FitsU128(DecodedTotal(t, source, s))}

\* the preconditions of a side that the token script validates itself
SettlementBroken(t, s) ==
    {name \in TokenPreconditions :
        \/ name = "conservation" /\ ~Conserved(t, s)
        \/ name = "remainder" /\ \E key \in SellerKeys(t, s) : ~KeyFits(t, s, key)
        \/ name = "payment_fits"
             /\ \E key \in SellerKeys(t, s) : KeyFits(t, s, key) /\ ~KeyPaymentFits(t, s, key)
        \/ name = "payment"
             /\ \E key \in SellerKeys(t, s) :
                    /\ KeyFits(t, s, key) /\ KeyPaymentFits(t, s, key)
                    /\ ~SelfTrade(t, key)
                    /\ PaidTo(t, key) # RequiredFor(t, s, key)}

\* the preconditions of the token script that transaction t violates for script s
TokenBroken(t, s) ==
    IF ~SideDecodes(s) THEN {"args"}
    ELSE IF SumsBroken(t, s) # {} THEN SumsBroken(t, s)
    ELSE IF DelegatedTo(t, s) THEN {}
    ELSE SettlementBroken(t, s)

\* the codes of the preconditions violated
MarketCodesOf(broken) == UNION {MarketClass(name) : name \in broken}
TokenCodesOf(broken) == UNION {TokenClass(name) : name \in broken}

(***************************************************************************)
(* Updates that violate one precondition each.                             *)
(***************************************************************************)
\* an update with an unchanged balance and no token input, in the given states
QuietTx(in_state, out_state, yes_out, variant) ==
    MarketTx([in_state |-> in_state, out_state |-> out_state,
              yes_in |-> 0, no_in |-> 0, yes_out |-> yes_out, no_out |-> 0,
              out_capacity |-> MarketInCapacity, variant |-> variant])

ExampleNames == {"lock", "identity", "movement", "reopen", "outcome"}

\* one update that violates the named precondition and no other
ExampleOf(name) ==
    IF name = "lock" THEN QuietTx(<<FALSE, FALSE>>, <<FALSE, FALSE>>, 0, "lock")
    ELSE IF name = "identity" THEN QuietTx(<<FALSE, FALSE>>, <<FALSE, FALSE>>, 0, "code")
    ELSE IF name = "movement" THEN QuietTx(<<FALSE, FALSE>>, <<FALSE, FALSE>>, 1, "plain")
    ELSE IF name = "reopen" THEN QuietTx(<<TRUE, TRUE>>, <<FALSE, TRUE>>, 0, "plain")
    ELSE QuietTx(<<TRUE, TRUE>>, <<TRUE, FALSE>>, 0, "plain")

(***************************************************************************)
(* C18 as stated.  Distinct error codes: every violated precondition of    *)
(* the market script and of the token script aborts with its own nonzero   *)
(* return code, so two different violated preconditions never produce the  *)
(* same code, and nothing is partially applied (the verdict is 0 or a      *)
(* rejection code).  Instance: a transaction that violates one             *)
(* precondition of the market script returns a code different from the     *)
(* code of an update that violates only another one.                       *)
(* The market script returns InvalidMarketData for a changed token         *)
(* identity, for an output that is no longer resolved and for a changed    *)
(* outcome alike.                                                          *)
(***************************************************************************)
C18_DistinctCodesAsStated ==
    /\ checked => \A s \in DOMAIN verdict : verdict[s] \in CodesOf(s) \cup {0}
    /\ \A s \in MarketScripts(tx) :
           Ran(s) => /\ verdict[s] = 0 <=> MarketBroken(tx, s) = {}
                     /\ \A other \in ExampleNames :
                            (Cardinality(MarketBroken(tx, s)) = 1 /\ other \notin MarketBroken(tx, s))
                            => verdict[s] # RunScript(ExampleOf(other), RefMarket)
    /\ \A s \in TokenScripts(tx) : Ran(s) => (verdict[s] = 0 <=> TokenBroken(tx, s) = {})

(***************************************************************************)
(* C18 amended.  Error codes: every violated precondition of the market    *)
(* script and of the token script aborts with a nonzero return code of the *)
(* script's Error enumeration, and nothing is partially applied (the       *)
(* verdict is 0 or a rejection code); the code names a class of            *)
(* preconditions, not a single one.  Each script accepts a transaction iff *)
(* the transaction violates none of the script's preconditions, and a      *)
(* rejection returns a code of the class of one of the preconditions       *)
(* violated.                                                               *)
(***************************************************************************)
C18_ErrorCodes ==
    /\ checked => \A s \in DOMAIN verdict : verdict[s] \in CodesOf(s) \cup {0}
    /\ \A s \in MarketScripts(tx) :
           Ran(s) => /\ verdict[s] = 0 <=> MarketBroken(tx, s) = {}
                     /\ verdict[s] # 0 => verdict[s] \in MarketCodesOf(MarketBroken(tx, s))
    /\ \A s \in TokenScripts(tx) :
           Ran(s) => /\ verdict[s] = 0 <=> TokenBroken(tx, s) = {}
                     /\ verdict[s] # 0 => verdict[s] \in TokenCodesOf(TokenBroken(tx, s))

\* the market cell is carried through unchanged next to a YES cell of 15 bytes: the
\* market script returns LengthNotEnough and the YES script InvalidDataLength; and
\* InvalidMarketData is the code both of un-resolving a market and of changing the
\* outcome of a resolved one
C18_Witness ==
    /\ Ran(RefMarket) /\ MarketBroken(tx, RefMarket) = {"token_payload"}
    /\ verdict[RefMarket] = LengthNotEnough
    /\ Ran(RefYes) /\ TokenBroken(tx, RefYes) = {"payload"}
    /\ verdict[RefYes] = InvalidDataLength
    /\ MarketBroken(ExampleOf("reopen"), RefMarket) = {"reopen"}
    /\ RunScript(ExampleOf("reopen"), RefMarket) = InvalidMarketData
    /\ MarketBroken(ExampleOf("outcome"), RefMarket) = {"outcome"}
    /\ RunScript(ExampleOf("outcome"), RefMarket) = InvalidMarketData

(***************************************************************************)
(* C19.  No wraparound: in both scripts every arithmetic overflow rejects  *)
(* the transaction.  The token script rejects when a side total exceeds    *)
(* 128 bits and, when it validates the orders itself (no market cell in    *)
(* the inputs), when sold x limit_price of an order or the required sum of *)
(* a seller exceeds 128 bits; the market script rejects an update when a   *)
(* side total exceeds 128 bits or when the balance changes and             *)
(* delta_tokens x 10_000_000_000 exceeds 64 bits.  What is accepted agrees *)
(* with the arithmetic on unbounded integers: an accepted settlement       *)
(* conserves the side and pays every seller with no self-trade exactly,    *)
(* and an accepted update of the open market leaves balance and totals     *)
(* unchanged or moves complete sets at the exact ratio.                    *)
(***************************************************************************)
C19_NoWraparound ==
    /\ \A token \in RefTokens : Ran(token) =>
        /\ ~TotalsFit(tx, token) => verdict[token] # 0
        /\ (~DelegatedTo(tx, token) /\ (ProductOverflows(tx, token) \/ SumOverflows(tx, token)))
           => verdict[token] # 0
        /\ (~DelegatedTo(tx, token) /\ verdict[token] = 0)
           => Conserved(tx, token) /\ RemaindersFit(tx, token) /\ ExactlySettled(tx, token)
    /\ (Ran(RefMarket) /\ IsUpdate(tx)) =>
        /\ (\E token \in RefTokens : ~TotalsFit(tx, token)) => verdict[RefMarket] # 0
        /\ (~BalanceUnchanged(tx) /\ DeltaOverflows(tx)) => verdict[RefMarket] # 0
        /\ verdict[RefMarket] = 0
           => \/ BalanceUnchanged(tx) /\ TotalsUnchanged(tx)
              \/ MovesCompleteSets(tx, "Input", "Output")
              \/ MovesCompleteSets(tx, "Output", "Input")

\* a mint of 2^64 YES and 2^64 NO against one set's collateral: the product with
\* 10_000_000_000 fits 128 bits and not 64, and the market script returns Encoding
C19_Witness ==
    /\ Ran(RefMarket) /\ IsUpdate(tx)
    /\ TokenTotal(tx, "Input", RefYes) = <<>> /\ TokenTotal(tx, "Input", RefNo) = <<>>
    /\ TokenTotal(tx, "Output", RefYes) = TwoTo64 /\ TokenTotal(tx, "Output", RefNo) = TwoTo64
    /\ BigLess(MarketCapacity(tx, "Input"), MarketCapacity(tx, "Output"))
    /\ DeltaOverflows(tx)
    /\ verdict[RefMarket] = Encoding

(***************************************************************************)
(* C20.  Determinism: the return code of each script is a function of the  *)
(* transaction's input and output cells and of its own script.  Once the   *)
(* script groups of a transaction have run, every later run on a           *)
(* transaction with the same input and output cells returns the same code  *)
(* for every script: a run of one script group again, whatever ran before, *)
(* and a run on the transaction carrying other witnesses (neither script   *)
(* loads a witness; has_witness of the market contract is never called).   *)
(***************************************************************************)
C20_Deterministic ==
    [][(checked /\ tx'.inputs = tx.inputs /\ tx'.outputs = tx.outputs) => verdict' = verdict]_vars

\* a resolution that was accepted without witnesses has been run again with a signature
\* in the lock field of the market input's witness, and is accepted
C20_Witness ==
    /\ checked /\ runs = 2
    /\ IsUpdate(tx)
    /\ ~PayloadResolved(MarketInput(tx)) /\ PayloadResolved(MarketOutput(tx))
    /\ has_witness(tx, RefMarket)
    /\ verdict[RefMarket] = 0

(***************************************************************************)
(* Quantities of the ledger of one market.                                 *)
(***************************************************************************)
\* the total amount of a token over the live cells
SupplyIn(cells, token) ==
    BigSum([c \in {d \in cells : d.type = Some(token)} |-> Amount(c)],
           {d \in cells : d.type = Some(token)})

LiveSupply(token) == SupplyIn(live, token)

\* the live cell of the reference market and the cell that created it
LiveMarket == CHOOSE c \in live : c.type = Some(RefMarket)
MarketLives == LiveOf(RefMarket) # {} /\ RefMarket \in DOMAIN origin

\* balance >= creation balance + 10_000_000_000 x supply of the token
Backed(token) ==
    BigLeq(BigAdd(origin[RefMarket].capacity, BigMul(LiveSupply(token), TenBillion)),
           LiveMarket.capacity)

(***************************************************************************)
(* C21.  Solvency: after any sequence of committed transactions starting   *)
(* from the creation, the market balance is at least the creation balance  *)
(* plus 10_000_000_000 x S, where S is the outstanding supply of each side *)
(* while the market is open and of the winning side once it is resolved;   *)
(* the balance never falls below the creation balance.                     *)
(* The market's tokens are those of the token script (token_code_hash of   *)
(* the payload names its code).                                            *)
(***************************************************************************)
C21_Solvency ==
    MarketLives =>
        /\ BigLeq(origin[RefMarket].capacity, LiveMarket.capacity)
        /\ IF ~PayloadResolved(LiveMarket) THEN Backed(RefYes) /\ Backed(RefNo)
           ELSE IF PayloadOutcome(LiveMarket) THEN Backed(RefYes)
           ELSE Backed(RefNo)

\* created, one set minted, resolved to YES and the YES token claimed: the balance is
\* back at the creation balance while the NO token is still outstanding
C21_Witness ==
    /\ MarketLives
    /\ ntx = 4
    /\ PayloadResolved(LiveMarket) /\ PayloadOutcome(LiveMarket)
    /\ LiveMarket.capacity = origin[RefMarket].capacity
    /\ LiveSupply(RefYes) = <<>>
    /\ LiveSupply(RefNo) = N(1)
    /\ MarketInInputs(tx, RefMarket)
    /\ BigLess(MarketCapacity(tx, "Output"), MarketCapacity(tx, "Input"))

\* the committed transaction consumed the open market cell and passed the Mint rules
CommittedMint(t) ==
    /\ IsUpdate(t)
    /\ ~PayloadResolved(MarketInput(t))
    /\ MovesCompleteSets(t, "Input", "Output")

(***************************************************************************)
(* C22.  Supply grows only through Mint: a step of the ledger raises the   *)
(* outstanding total of the market's YES (resp. NO) tokens only by         *)
(* committing a transaction that consumes the open market cell and passes  *)
(* the Mint rules.  The total is 0 on the initial ledger, so it is 0 from  *)
(* the creation until the first Mint, and the creation transaction, which  *)
(* consumes no market cell, creates no token cell of a positive amount.    *)
(***************************************************************************)
C22_SupplyGrowsOnlyThroughMint ==
    [][\A token \in RefTokens :
          BigLess(SupplyIn(live, token), SupplyIn(live', token)) => CommittedMint(tx')]_vars

\* a Mint has been committed after the creation: one YES and one NO token are live and
\* the balance stands one set above the creation balance
C22_Witness ==
    /\ MarketLives
    /\ CommittedMint(tx)
    /\ LiveSupply(RefYes) = N(1) /\ LiveSupply(RefNo) = N(1)
    /\ LiveMarket.capacity = BigAdd(origin[RefMarket].capacity, TenBillion)

(***************************************************************************)
(* C23.  Each side's sale is paid separately: in a transaction with no     *)
(* market cell in its inputs and no self-trade that fills a seller's YES   *)
(* order and the same seller's NO order, acceptance by the YES and the NO  *)
(* script implies that the plain outputs locked to the seller total the    *)
(* YES-side required payment plus the NO-side required payment.            *)
(* The code compares the whole sum of the seller's plain outputs with the  *)
(* required total of each side on its own: one output of 21 shannons       *)
(* settles a YES order and a NO order of 3 tokens at price 7 each.         *)
(***************************************************************************)
C23_EachSidePaidSeparately ==
    (/\ AllAccepted
     /\ ~MarketInInputs(tx, RefMarket))
    => \A key \in SellerKeys(tx, RefYes) \cap SellerKeys(tx, RefNo) :
           ~SelfTrade(tx, key)
           => PaidTo(tx, key)
                = BigAdd(RequiredFor(tx, RefYes, key), RequiredFor(tx, RefNo, key))

(***************************************************************************)
(* Quantities of the remainders of one seller.                             *)
(***************************************************************************)
\* the output order cells of the token with the lock code, lock args and price of
\* an input order of the seller key
RemainderCells(t, token, key) ==
    {k \in Typed(t, "Output", token) :
        \E i \in OrdersOf(t, token, key) :
            /\ t.outputs[k].lock.code_hash = t.inputs[i].lock.code_hash
            /\ t.outputs[k].lock.args = t.inputs[i].lock.args
            /\ Price(t.outputs[k]) = Price(t.inputs[i])}

\* the sum over those cells of amount x limit_price
RemainderValue(t, token, key) ==
    BigSum([k \in RemainderCells(t, token, key) |->
               BigMul(Amount(t.outputs[k]), Price(t.outputs[k]))],
           RemainderCells(t, token, key))

(***************************************************************************)
(* C24.  A remainder output is credited to at most one order: in an        *)
(* accepted settlement (no market cell in the inputs, no self-trade) every *)
(* seller key is paid, for every price p, p x (the amounts of the seller's *)
(* input orders at p minus the amounts of the output order cells with the  *)
(* same lock code, lock args and price p); two input orders of one seller  *)
(* at one price cannot both take the same output cell as their remainder.  *)
(* The code looks up the first matching output for each order on its own:  *)
(* two orders of 3 tokens at price 7 are both settled by one re-created    *)
(* order of 3 tokens, with no payment.                                     *)
(***************************************************************************)
C24_RemainderCreditedOnce ==
    \A token \in RefTokens :
        (/\ Ran(token) /\ verdict[token] = 0
         /\ ~MarketInInputs(tx, RefMarket))
        => \A key \in SellerKeys(tx, token) :
               ~SelfTrade(tx, key)
               => BigAdd(PaidTo(tx, key), RemainderValue(tx, token, key))
                    = FullPriceFor(tx, token, key)

(***************************************************************************)
(* Seller groups of one side.                                              *)
(***************************************************************************)
\* the order inputs at which the outer loop performs a payment check
GroupStarts(t, token) ==
    {i \in OrderInputs(t, token) :
        seller_already_processed(t, i, t.inputs[i].lock.args, calc_script_hash(token))
          = Ok(FALSE)}

\* the total the code requires for the group that starts at order input i
GroupTotal(t, token, i) ==
    seller_group_total(t, token, i, Amount(t.inputs[i]), Price(t.inputs[i]))

(***************************************************************************)
(* C25.  Seller grouping: the payment check of a seller key is performed   *)
(* exactly once, at the first order input with that key; its required      *)
(* total includes all this side's orders with that key wherever they       *)
(* appear among the inputs; a later order with a key already seen triggers *)
(* no second check; orders of different keys are never summed together.    *)
(* Without the market cell, with the side conserved and every remainder    *)
(* fitting, the side is accepted exactly when every seller who is not the  *)
(* payer is paid that total.                                               *)
(***************************************************************************)
C25_SellerGrouping ==
    \A token \in RefTokens :
        Ran(token) =>
            \A starts \in {GroupStarts(tx, token)} : \A fit \in {RemaindersFit(tx, token)} :
                /\ \A key \in SellerKeys(tx, token) : \A first \in {Min(OrdersOf(tx, token, key))} :
                       /\ starts \cap OrdersOf(tx, token, key) = {first}
                       /\ fit => GroupTotal(tx, token, first) = Ok(RequiredFor(tx, token, key))
                /\ (/\ ~MarketInInputs(tx, RefMarket)
                    /\ Conserved(tx, RefYes) /\ Conserved(tx, RefNo)
                    /\ fit)
                   => (verdict[token] = 0 <=> ExactlySettled(tx, token))

\* the orders of Seller1 at inputs 1 and 3 with an order of Seller2 between them,
\* each seller paid the total of their own orders, accepted
C25_Witness ==
    /\ Ran(RefYes) /\ verdict[RefYes] = 0
    /\ Len(tx.inputs) = 3
    /\ OrdersOf(tx, RefYes, Seller1Key) = {1, 3}
    /\ OrdersOf(tx, RefYes, Bytes32(calc_script_hash(Seller2))) = {2}
    /\ GroupStarts(tx, RefYes) = {1, 2}
    /\ PaidTo(tx, Seller1Key) = N(42)
    /\ PaidTo(tx, Bytes32(calc_script_hash(Seller2))) = N(21)

(***************************************************************************)
(* The nested scan and the index-based grouping side by side.              *)
(***************************************************************************)
\* the seller group the nested scan forms at order input i: the order itself and
\* the later orders with the same lock args
NestedGroup(t, token, i) ==
    {i} \cup {j \in OrderInputs(t, token) :
                 j > i /\ t.inputs[j].lock.args = t.inputs[i].lock.args}

NestedGroups(t, token) == {NestedGroup(t, token, i) : i \in GroupStarts(t, token)}

\* the map of the index-based grouping, and its groups as sets of input indices
OrderIndex(t, token) == build_order_index_from(t, token, 1, <<>>).val

Range(f) == {f[x] : x \in DOMAIN f}

IndexedGroups(t, token) ==
    {Range(OrderIndex(t, token)[g].indices) : g \in 1..Len(OrderIndex(t, token))}

(***************************************************************************)
(* C26.  Index-based grouping is equivalent to the nested scan: grouping   *)
(* the order inputs through a map built once per validation (seller key -> *)
(* list of order-input indices) yields the same set of seller groups, the  *)
(* same required total per seller and the same accept/reject verdict as    *)
(* the first-occurrence nested scan of the source.                         *)
(***************************************************************************)
C26_IndexedGroupingEquivalent ==
    \A token \in RefTokens :
        Ran(token) =>
            \A built \in {build_order_index_from(tx, token, 1, <<>>)} :
            \A indexed \in {validate_limit_orders_indexed(tx, token)} :
                /\ built.ok
                /\ {Range(built.val[g].indices) : g \in 1..Len(built.val)}
                     = NestedGroups(tx, token)
                /\ \A g \in 1..Len(built.val) :
                       indexed_group_total(tx, token, built.val[g].indices, 1, <<>>)
                         = GroupTotal(tx, token, built.val[g].indices[1])
                /\ indexed.ok = validate_limit_orders_cumulative(tx, token).ok
                /\ (~MarketInInputs(tx, RefMarket) /\ Conserved(tx, token))
                     => (verdict[token] = 0 <=> indexed.ok)

\* two sellers with interleaved orders: two groups, {1, 3} and {2}, accepted by both
C26_Witness ==
    /\ Ran(RefYes) /\ verdict[RefYes] = 0
    /\ IndexedGroups(tx, RefYes) = {{1, 3}, {2}}
    /\ NestedGroups(tx, RefYes) = {{1, 3}, {2}}
    /\ validate_limit_orders_indexed(tx, RefYes).ok
    /\ GroupTotal(tx, RefYes, 1) = Ok(N(42))

(***************************************************************************)
(* The remainder of one order and the checks that run before it.           *)
(***************************************************************************)
\* what calc_required_payment returns for order input i
RequiredOf(t, token, i) ==
    calc_required_payment(t, token, i, Amount(t.inputs[i]), Price(t.inputs[i]))

Oversized(t, token, i) == BigLess(Amount(t.inputs[i]), Remainder(t, token, i))

\* the seller keys whose group is checked before the group of order input i
EarlierKeys(t, token, i) ==
    {key \in SellerKeys(t, token) :
        Min(OrdersOf(t, token, key)) < Min(OrdersOf(t, token, t.inputs[i].lock.args))}

\* a group that does not stop the scan with another error: settled, or itself
\* holding an oversized remainder
PassesOrOversized(t, token, key) ==
    \/ \E j \in OrdersOf(t, token, key) : Oversized(t, token, j)
    \/ SelfTrade(t, key)
    \/ PaidTo(t, key) = RequiredFor(t, token, key)

\* no required payment of the side and no sum of them leaves u128
TotalsWithinU128(t, token) ==
    \A key \in SellerKeys(t, token) : FitsU128(FullPriceFor(t, token, key))

\* C27 as the specification states it: an oversized remainder always ends the run with
\* LimitOrderInvalidAmount
C27_RemainderRuleAsStated ==
    \A token \in RefTokens :
        (Ran(token) /\ ~MarketInInputs(tx, RefMarket))
        => \A i \in OrderInputs(tx, token) :
               Oversized(tx, token, i) => verdict[token] = LimitOrderInvalidAmount

(***************************************************************************)
(* C27.  Remainder rule: for each order input, sold = order amount minus   *)
(* the amount of the first output cell of the same side with the same lock *)
(* code, the same lock args and the same limit_price; if no such output    *)
(* exists the remainder is 0 and the order is fully sold; if that output's *)
(* amount exceeds the order's amount the order's required payment is the   *)
(* error LimitOrderInvalidAmount and the transaction is rejected.  The     *)
(* run ends with LimitOrderInvalidAmount when the side's output total does *)
(* not exceed its input total, every seller group checked before the       *)
(* order's group is settled and no required payment overflows u128;        *)
(* otherwise the earlier failure (UnauthorizedMinting,                     *)
(* LimitOrderPaymentMismatch, Encoding) is returned.                       *)
(***************************************************************************)
C27_RemainderRule ==
    \A token \in RefTokens :
        (Ran(token) /\ ~MarketInInputs(tx, RefMarket))
        => \A i \in OrderInputs(tx, token) :
               /\ find_matching_output_amount(tx, token, i, Price(tx.inputs[i]))
                    = Ok(Remainder(tx, token, i))
               /\ RemainderOutputs(tx, token, i) = {} =>
                      /\ Remainder(tx, token, i) = <<>>
                      /\ RequiredOf(tx, token, i)
                           = Ok(BigMul(Amount(tx.inputs[i]), Price(tx.inputs[i])))
               /\ ~Oversized(tx, token, i) =>
                      RequiredOf(tx, token, i)
                        = Ok(BigMul(BigSub(Amount(tx.inputs[i]), Remainder(tx, token, i)),
                                    Price(tx.inputs[i])))
               /\ Oversized(tx, token, i) =>
                      /\ RequiredOf(tx, token, i) = Err(LimitOrderInvalidAmount)
                      /\ verdict[token] # 0
                      /\ (/\ Conserved(tx, token)
                          /\ TotalsWithinU128(tx, token)
                          /\ \A key \in EarlierKeys(tx, token, i) :
                                 PassesOrOversized(tx, token, key))
                         => verdict[token] = LimitOrderInvalidAmount

\* Seller2's order is paid and checked first, then Seller1's order of 3 meets a
\* re-created order of 4: LimitOrderInvalidAmount
C27_Witness ==
    /\ Ran(RefYes) /\ verdict[RefYes] = LimitOrderInvalidAmount
    /\ Len(tx.inputs) = 2
    /\ OrdersOf(tx, RefYes, Bytes32(calc_script_hash(Seller2))) = {1}
    /\ OrdersOf(tx, RefYes, Seller1Key) = {2}
    /\ Oversized(tx, RefYes, 2)
    /\ Remainder(tx, RefYes, 2) = N(4)
    /\ PaidTo(tx, Bytes32(calc_script_hash(Seller2))) = N(21)

(***************************************************************************)
(* Cancellations: orders consumed with nothing bought.                     *)
(***************************************************************************)
\* every order of the seller key comes back with its amount, lock and price
RecreatedUnchanged(t, token, key) ==
    \A i \in OrdersOf(t, token, key) :
        /\ RemainderOutputs(t, token, i) # {}
        /\ Remainder(t, token, i) = Amount(t.inputs[i])

\* no order of the seller key has an output with its lock and price
TakenOut(t, token, key) ==
    \A i \in OrdersOf(t, token, key) : RemainderOutputs(t, token, i) = {}

(***************************************************************************)
(* C28.  Cancellation still pays: a transaction without the market cell    *)
(* that consumes an order and is not a self-trade must satisfy the         *)
(* exact-payment rule even when nothing is bought.  If the order is        *)
(* re-created unchanged (sold = 0) the plain outputs to the seller total   *)
(* exactly 0; if the tokens are taken out of the order cell with no        *)
(* same-price remainder the seller's lock is paid the full                 *)
(* amount x limit_price.                                                   *)
(***************************************************************************)
C28_CancellationStillPays ==
    \A token \in RefTokens :
        (Ran(token) /\ verdict[token] = 0 /\ ~MarketInInputs(tx, RefMarket))
        => \A key \in SellerKeys(tx, token) :
               ~SelfTrade(tx, key) =>
                   /\ RecreatedUnchanged(tx, token, key) => PaidTo(tx, key) = <<>>
                   /\ TakenOut(tx, token, key)
                        => PaidTo(tx, key) = FullPriceFor(tx, token, key)

\* Seller1's order of 3 tokens at price 7 goes to a holding cell of the buyer and
\* Seller1 is paid 21: accepted
C28_Witness ==
    /\ Ran(RefYes) /\ verdict[RefYes] = 0
    /\ Len(tx.inputs) = 1
    /\ OrdersOf(tx, RefYes, Seller1Key) = {1}
    /\ TakenOut(tx, RefYes, Seller1Key)
    /\ TokenTotal(tx, "Output", RefYes) = N(3)
    /\ PaidTo(tx, Seller1Key) = N(21)
    /\ FullPriceFor(tx, RefYes, Seller1Key) = N(21)

(***************************************************************************)
(* C29.  The outcome is frozen while the market is Open unless it is being *)
(* resolved: an accepted update of an Open market whose output is still    *)
(* unresolved (Mint, Burn or NoOp) has the output outcome field equal to   *)
(* the input outcome field; the outcome may differ from the input's only   *)
(* in the transaction that sets resolved = true.                           *)
(***************************************************************************)
C29_OutcomeFrozenWhileOpen ==
    AcceptedUpdate =>
        /\ (~PayloadResolved(MarketInput(tx)) /\ ~PayloadResolved(MarketOutput(tx)))
             => PayloadOutcome(MarketOutput(tx)) = PayloadOutcome(MarketInput(tx))
        /\ PayloadOutcome(MarketOutput(tx)) # PayloadOutcome(MarketInput(tx))
             => (~PayloadResolved(MarketInput(tx)) /\ PayloadResolved(MarketOutput(tx)))

\* an Open market whose outcome field is already set mints one complete set and keeps
\* the field: accepted
C29_Witness ==
    /\ AcceptedUpdate
    /\ ~PayloadResolved(MarketInput(tx)) /\ ~PayloadResolved(MarketOutput(tx))
    /\ PayloadOutcome(MarketInput(tx)) /\ PayloadOutcome(MarketOutput(tx))
    /\ MovesCompleteSets(tx, "Input", "Output")

(***************************************************************************)
(* Resolutions and their witnesses.                                        *)
(***************************************************************************)
\* an Open -> Resolved update with unchanged balance, unchanged token totals, the
\* lock preserved and the token identity fields preserved
ResolutionShape(t) ==
    /\ IsUpdate(t)
    /\ ~PayloadResolved(MarketInput(t)) /\ PayloadResolved(MarketOutput(t))
    /\ BalanceUnchanged(t) /\ TotalsUnchanged(t)
    /\ MarketOutput(t).lock = MarketInput(t).lock
    /\ TokenIdentity(MarketOutput(t)) = TokenIdentity(MarketInput(t))

\* the stored hash_type byte is one derive_token_type_hash converts
ModeDecodes(cell) == ByteAt(cell.data, 32) \in {0, 1, 2, 4}

WithoutWitnesses(t) == [t EXCEPT !.witnesses = <<>>]

\* C30 as the specification states it: every such resolution is accepted
C30_ResolutionAcceptedAsStated ==
    (Ran(RefMarket) /\ ResolutionShape(tx)) => verdict[RefMarket] = 0

(***************************************************************************)
(* C30.  Resolution needs no authorization and the verdict ignores         *)
(* witnesses: an Open -> Resolved update of a market whose stored          *)
(* hash_type byte is 0, 1, 2 or 4, with unchanged balance, unchanged token *)
(* totals, preserved lock and preserved token identity fields, is accepted *)
(* by the market script with either outcome value, for any submitter, with *)
(* or without a witness lock field; the verdict of every transaction is    *)
(* the verdict of the same transaction without witnesses (has_witness is   *)
(* not consulted).  With any other stored hash_type byte, which creation   *)
(* does not rule out, the update is rejected with Encoding.                *)
(***************************************************************************)
C30_ResolutionUnauthorized ==
    Ran(RefMarket) =>
        /\ verdict[RefMarket] = market_program_entry(WithoutWitnesses(tx), RefMarket)
        /\ ResolutionShape(tx) =>
               IF ModeDecodes(MarketInput(tx)) THEN verdict[RefMarket] = 0
               ELSE verdict[RefMarket] = Encoding

\* Seller2 submits the resolution to NO of a market holding tokens, with no witness
\* at all: accepted
C30_Witness ==
    /\ AcceptedUpdate /\ ResolutionShape(tx)
    /\ ~PayloadOutcome(MarketOutput(tx))
    /\ tx.witnesses = <<>>
    /\ ~has_witness(tx, RefMarket)
    /\ TokenTotal(tx, "Input", RefYes) = N(1)
    /\ PlainOf(tx, "Input", Bytes32(calc_script_hash(Seller2))) # {}

(***************************************************************************)
(* C31.  A created market is always updatable: for every market cell       *)
(* accepted by Creation, the NoOp update that re-creates it with identical *)
(* lock, payload, balance and token totals is accepted by the market       *)
(* script, for every hash_type byte that Creation admits; no accepted      *)
(* Creation produces a market cell that can never be consumed again.       *)
(* The code admits every hash_type byte at Creation and converts only 0,   *)
(* 1, 2 and 4 in an update: a market created with another byte rejects     *)
(* every update with Encoding.                                             *)
(***************************************************************************)
C31_CreatedMarketUpdatable ==
    \A s \in DOMAIN verdict :
        (checked /\ tx # NoTx /\ MarketInInputs(tx, s)) => verdict[s] = 0

(***************************************************************************)
(* Redemption of the winning side.                                         *)
(***************************************************************************)
\* the token of the side the resolved market cell m names as the winner
WinnerOf(m) == IF PayloadOutcome(m) THEN RefYes ELSE RefNo

\* the Claim that burns k live unit cells of the token, moves no other token and
\* lowers the balance of the market cell m by k x 10_000_000_000
ClaimTx(m, token, k) ==
    [inputs |-> <<m>> \o Oldest(LiveOf(token), k),
     outputs |-> <<Cell(BigSub(m.capacity, BigMul(N(k), TenBillion)), m.lock, m.type, m.data)>>]

(***************************************************************************)
(* C32.  Winners can always redeem: in every reachable Resolved state with *)
(* winning-side supply w > 0, for each k with 1 <= k <= w the Claim that   *)
(* burns k winning tokens, leaves the losing side's total unchanged and    *)
(* lowers the market balance by k x 10_000_000_000 is accepted by the      *)
(* market script and leaves a non-negative balance, so repeated claims can *)
(* bring the winning supply to 0.                                          *)
(***************************************************************************)
C32_WinnersCanRedeem ==
    (MarketLives /\ PayloadResolved(LiveMarket)) =>
        \A k \in 1..Cardinality(LiveOf(WinnerOf(LiveMarket))) :
            /\ BigLeq(BigMul(N(k), TenBillion), LiveMarket.capacity)
            /\ market_program_entry(ClaimTx(LiveMarket, WinnerOf(LiveMarket), k), RefMarket) = 0

\* the market was resolved to NO with one NO token outstanding; the claim of that
\* token has been committed and the winning supply is 0
C32_Witness ==
    /\ MarketLives
    /\ PayloadResolved(LiveMarket) /\ ~PayloadOutcome(LiveMarket)
    /\ MarketInInputs(tx, RefMarket)
    /\ PayloadResolved(MarketInput(tx))
    /\ ClaimOf(tx, RefNo, RefYes)
    /\ TokenTotal(tx, "Input", RefNo) = N(1)
    /\ LiveSupply(RefNo) = <<>>
    /\ LiveMarket.capacity = origin[RefMarket].capacity

(***************************************************************************)
(* Reorderings of the cells of a transaction.                              *)
(***************************************************************************)
Reorderings(n) == {p \in [1..n -> 1..n] : \A a, b \in 1..n : p[a] = p[b] => a = b}

PermuteInputs(t, p) == [t EXCEPT !.inputs = [k \in 1..Len(t.inputs) |-> t.inputs[p[k]]]]

PermuteOutputs(t, p) == [t EXCEPT !.outputs = [k \in 1..Len(t.outputs) |-> t.outputs[p[k]]]]

(***************************************************************************)
(* C33.  Input-order independence: whether the token script accepts or     *)
(* rejects a transaction is the same for every permutation of the          *)
(* transaction's input cells.                                              *)
(***************************************************************************)
C33_InputOrderIndependent ==
    \A token \in RefTokens :
        Ran(token) =>
            \A p \in Reorderings(Len(tx.inputs)) :
                (token_program_entry(PermuteInputs(tx, p), token) = 0) <=> (verdict[token] = 0)

\* Seller2's order comes before Seller1's, each seller is paid 21: accepted, and
\* the two orders are different cells, so the swap is a different transaction
C33_Witness ==
    /\ Ran(RefYes) /\ verdict[RefYes] = 0
    /\ Len(tx.inputs) = 2
    /\ OrdersOf(tx, RefYes, Bytes32(calc_script_hash(Seller2))) = {1}
    /\ OrdersOf(tx, RefYes, Seller1Key) = {2}
    /\ PaidTo(tx, Seller1Key) = N(21)
    /\ PaidTo(tx, Bytes32(calc_script_hash(Seller2))) = N(21)
    /\ \E p \in Reorderings(2) : PermuteInputs(tx, p).inputs # tx.inputs

(***************************************************************************)
(* C34.  Output-order independence as stated: whether the token script     *)
(* accepts or rejects a transaction is the same for every permutation of   *)
(* the transaction's output cells, whichever candidate output is found     *)
(* first as an order's remainder.                                          *)
(* The code takes the first candidate: with candidates of different        *)
(* amounts the verdict follows their order.                                *)
(***************************************************************************)
C34_OutputOrderIndependentAsStated ==
    \A token \in RefTokens :
        Ran(token) =>
            \A p \in Reorderings(Len(tx.outputs)) :
                (token_program_entry(PermuteOutputs(tx, p), token) = 0) <=> (verdict[token] = 0)

\* the permutation leaves every order input its remainder
KeepsRemainders(t, token, p) ==
    \A i \in OrderInputs(t, token) :
        Remainder(PermuteOutputs(t, p), token, i) = Remainder(t, token, i)

(***************************************************************************)
(* C34 (amended).  Whether the token script accepts or rejects a           *)
(* transaction is the same for every permutation of the output cells that  *)
(* leaves each order input the amount of its first candidate remainder     *)
(* output (same side, lock code, lock args and limit_price); in particular *)
(* for every permutation when the candidates of each order carry one       *)
(* amount.                                                                 *)
(***************************************************************************)
C34_OutputOrderIndependent ==
    \A token \in RefTokens :
        Ran(token) =>
            \A p \in Reorderings(Len(tx.outputs)) :
                KeepsRemainders(tx, token, p) =>
                    ((token_program_entry(PermuteOutputs(tx, p), token) = 0)
                         <=> (verdict[token] = 0))

\* Seller1's order is re-created with 2 tokens and Seller1 is paid 7 by the
\* second output: accepted, and so is the transaction with the outputs swapped
C34_Witness ==
    /\ Ran(RefYes) /\ verdict[RefYes] = 0
    /\ Len(tx.inputs) = 1 /\ Len(tx.outputs) = 2
    /\ OrdersOf(tx, RefYes, Seller1Key) = {1}
    /\ RemainderOutputs(tx, RefYes, 1) = {1}
    /\ Remainder(tx, RefYes, 1) = N(2)
    /\ PaidTo(tx, Seller1Key) = N(7)
    /\ \E p \in Reorderings(2) :
           /\ PermuteOutputs(tx, p).outputs # tx.outputs
           /\ KeepsRemainders(tx, RefYes, p)

(***************************************************************************)
(* C35.  The token script validates its args first: it returns             *)
(* LengthNotEnough when the args are shorter than 33 bytes and             *)
(* InvalidTokenId when the side byte at offset 32 is neither 1 (YES) nor   *)
(* 2 (NO), on every run, the transactions with the market cell among the   *)
(* inputs included.                                                        *)
(***************************************************************************)
C35_ArgsValidatedFirst ==
    \A s \in TokenScripts(tx) :
        Ran(s) =>
            /\ ByteLen(s.args) < 33 => verdict[s] = LengthNotEnough
            /\ (ByteLen(s.args) >= 33 /\ ByteAt(s.args, 32) \notin {TOKEN_YES, TOKEN_NO})
               => verdict[s] = InvalidTokenId

\* the market cell is co-spent with a cell of the script without a side byte and a
\* cell of the script with side byte 3
C35_Witness ==
    /\ Ran(ShortArgs) /\ DelegatedTo(tx, ShortArgs) /\ verdict[ShortArgs] = LengthNotEnough
    /\ Ran(BadSide) /\ DelegatedTo(tx, BadSide) /\ verdict[BadSide] = InvalidTokenId

(***************************************************************************)
(* Payloads of token cells.                                                *)
(***************************************************************************)
\* the cells of a source with the token's type whose payload is neither 16 nor 32 bytes
Malformed(t, source, token) ==
    {i \in Typed(t, source, token) : ByteLen(Cells(t, source)[i].data) \notin {16, 32}}

\* where sum_token_amounts stops reading a source
StopsAt(t, source, token) ==
    IF Malformed(t, source, token) = {} THEN Len(Cells(t, source)) + 1
    ELSE Min(Malformed(t, source, token))

\* the amounts of the token's cells of a source read before that point exceed u128
OverflowsBeforeStop(t, source, token) ==
    ~FitsU128(BigSum([i \in Typed(t, source, token) |-> Amount(Cells(t, source)[i])],
                     {i \in Typed(t, source, token) : i < StopsAt(t, source, token)}))

\* an overflow is met before the first malformed payload, inputs being read first
OverflowComesFirst(t, token) ==
    \/ OverflowsBeforeStop(t, "Input", token)
    \/ Malformed(t, "Input", token) = {} /\ OverflowsBeforeStop(t, "Output", token)

\* the payloads of the token's cells are parsed as the two layouts say
ParsedAsLaidOut(t, token) ==
    \A source \in {"Input", "Output"} : \A i \in Typed(t, source, token) :
        \A data \in {Cells(t, source)[i].data} :
            /\ ByteLen(data) = 16
               => parse_token_data(data) = Ok([amount |-> FromLeBytes(data), limit_price |-> <<>>])
            /\ ByteLen(data) = 32
               => parse_token_data(data)
                      = Ok([amount |-> FromLeBytes(Slice(data, 0, 16)),
                            limit_price |-> FromLeBytes(Slice(data, 16, 32))])

\* a side whose inputs hold no 32-byte cell with a price is settled by conservation alone
NoOrderNoPayment(t, token) ==
    (/\ ~DelegatedTo(t, token)
     /\ PayloadsDecode(t, token) /\ TotalsFit(t, token)
     /\ \A i \in Typed(t, "Input", token) :
            ByteLen(t.inputs[i].data) = 16 \/ Price(t.inputs[i]) = <<>>)
    => ((verdict[token] = 0) <=> Conserved(t, token))

(***************************************************************************)
(* C36 as stated.  Token payload parsing: a 16-byte payload is read as     *)
(* (amount, limit_price = 0), a 32-byte payload as (little-endian amount,  *)
(* little-endian limit_price), and the token script returns                *)
(* InvalidDataLength for every transaction that holds a cell of its side   *)
(* with a payload of any other length; a 16-byte cell is never a limit     *)
(* order.                                                                  *)
(* The code adds the amounts as it reads: an overflow of the amounts read  *)
(* before the malformed cell returns Encoding.                             *)
(***************************************************************************)
C36_PayloadParsingAsStated ==
    \A token \in RefTokens :
        Ran(token) =>
            /\ ParsedAsLaidOut(tx, token)
            /\ ~PayloadsDecode(tx, token) => verdict[token] = InvalidDataLength
            /\ NoOrderNoPayment(tx, token)

(***************************************************************************)
(* C36 (amended).  Token payload parsing: a 16-byte payload is read as     *)
(* (amount, limit_price = 0), a 32-byte payload as (little-endian amount,  *)
(* little-endian limit_price), and the token script rejects every          *)
(* transaction that holds a cell of its side with a payload of any other   *)
(* length: with InvalidDataLength, unless the amounts of the side's cells  *)
(* read before the first such cell (the inputs, then the outputs) exceed   *)
(* u128, which returns Encoding; a 16-byte cell is never a limit order.    *)
(***************************************************************************)
C36_PayloadParsing ==
    \A token \in RefTokens :
        Ran(token) =>
            /\ ParsedAsLaidOut(tx, token)
            /\ ~PayloadsDecode(tx, token)
               => verdict[token] = IF OverflowComesFirst(tx, token) THEN Encoding
                                   ELSE InvalidDataLength
            /\ NoOrderNoPayment(tx, token)

\* a 16-byte cell of 3 YES under Seller1's order lock and a 32-byte cell of
\* u128::MAX YES are consumed and a 17-byte cell is created: the amounts read
\* before the 17-byte cell overflow and the YES script returns Encoding
C36_Witness ==
    /\ Ran(RefYes) /\ ~DelegatedTo(tx, RefYes)
    /\ Len(tx.inputs) = 2 /\ Len(tx.outputs) = 1
    /\ tx.inputs[1].lock = order_lock(Seller1)
    /\ parse_token_data(tx.inputs[1].data) = Ok([amount |-> N(3), limit_price |-> <<>>])
    /\ ByteLen(tx.inputs[2].data) = 32
    /\ parse_token_data(tx.inputs[2].data) = Ok([amount |-> MaxU128, limit_price |-> <<>>])
    /\ Malformed(tx, "Output", RefYes) = {1}
    /\ ByteLen(tx.outputs[1].data) = 17
    /\ OverflowComesFirst(tx, RefYes)
    /\ verdict[RefYes] = Encoding

(***************************************************************************)
(* Payloads of market cells.                                               *)
(***************************************************************************)
\* exactly one market output, at most one market input, and at creation the args
\* are the Type ID of the first input and of the market output's position
WellFormedLifecycle(t) ==
    /\ Cardinality(MarketOutputs(t)) = 1
    /\ Cardinality(MarketInputs(t)) <= 1
    /\ MarketInputs(t) = {}
       => /\ t.inputs # <<>>
          /\ RefMarket.args
                 = Bytes32(TypeId(t.inputs[1].out_point, N(Min(MarketOutputs(t)) - 1)))

\* the payloads the market script loads: the output's, and at an update the input's
LoadedPayloads(t) ==
    {t.outputs[i].data : i \in MarketOutputs(t)} \cup {t.inputs[i].data : i \in MarketInputs(t)}

\* the creation conditions read off the payload at offsets 0..31 and 33
CreationFields(data) == Slice(data, 0, 32) # Bytes32(Zero32) /\ ByteAt(data, 33) = 0

(***************************************************************************)
(* C37 as stated.  Market payload wire format: the market script parses a  *)
(* payload of 34 bytes laid out as 32-byte token identity hash, 1-byte     *)
(* mode, 1-byte resolved, 1-byte outcome; a shorter payload is rejected    *)
(* with LengthNotEnough at both creation and update.                       *)
(* The four fields take 35 bytes and the code asks for 35: a payload of 34 *)
(* bytes is rejected with LengthNotEnough.                                 *)
(***************************************************************************)
C37_WireFormatAsStated ==
    (Ran(RefMarket) /\ WellFormedLifecycle(tx)) =>
        /\ (verdict[RefMarket] = LengthNotEnough)
               <=> (\E data \in LoadedPayloads(tx) : ByteLen(data) < 34)
        /\ (MarketInputs(tx) = {} /\ ByteLen(MarketOutput(tx).data) >= 34)
               => ((verdict[RefMarket] = 0) <=> CreationFields(MarketOutput(tx).data))

(***************************************************************************)
(* C37 (amended).  Market payload wire format: the market script parses a  *)
(* payload of 35 bytes laid out as 32-byte token identity hash, 1-byte     *)
(* mode, 1-byte resolved, 1-byte outcome (bytes beyond the 35th are        *)
(* ignored); in a transaction with exactly one market output, at most one  *)
(* market input and valid Type ID args, a payload shorter than 35 bytes,   *)
(* the output's at creation, the output's or the input's at update, is     *)
(* rejected with LengthNotEnough, and no other payload is.                 *)
(***************************************************************************)
C37_WireFormat ==
    (Ran(RefMarket) /\ WellFormedLifecycle(tx)) =>
        /\ (verdict[RefMarket] = LengthNotEnough)
               <=> (\E data \in LoadedPayloads(tx) : ByteLen(data) < 35)
        /\ (MarketInputs(tx) = {} /\ ByteLen(MarketOutput(tx).data) >= 35)
               => ((verdict[RefMarket] = 0) <=> CreationFields(MarketOutput(tx).data))

\* a creation of the reference market with a payload of 34 bytes (hash, mode,
\* resolved): rejected with LengthNotEnough
C37_Witness ==
    /\ Ran(RefMarket) /\ WellFormedLifecycle(tx)
    /\ MarketInputs(tx) = {}
    /\ ByteLen(MarketOutput(tx).data) = 34
    /\ verdict[RefMarket] = LengthNotEnough

====
